---- MODULE Spec2Model ----
(***************************************************************************)
(* Framing, caching, reconnecting and frame sharing of the submarine       *)
(* multistream senders and receivers.                                      *)
(*                                                                         *)
(* The repository holds several independent deployments (a sender and the  *)
(* receiver that matches it).  Each deployment is one specification over   *)
(* its own group of variables; the other groups stay at their initial      *)
(* value:                                                                  *)
(*   SpecDatagram  the UDP receivers and the senders that feed them        *)
(*   SpecStream    the TCP receivers reading a byte stream in short reads  *)
(*   SpecCache     the FrameBuffer caches and the staleness checks         *)
(*   SpecConnect   the TCP senders' connect / send / reconnect loops       *)
(*   SpecCapture   the capture callback and the main loop sharing frames   *)
(***************************************************************************)
EXTENDS Integers, Sequences, FiniteSets, TLC

VARIABLES
    \* ---- receivers ----------------------------------------------------
    variant,    \* which deployment runs (fixed from the start)
    txArgs,     \* arguments of the sender call whose packet was delivered last
    ret,        \* what the last receive call parsed and returned
    frames,     \* FrameBuffer::frames of the multiplexed receivers (type -> image)
    lastFrame   \* lastFrame / lastDepth of the single-stream receivers (0 = empty Mat)

dgVars == <<variant, txArgs, ret, frames, lastFrame>>

VARIABLES
    \* ---- clock and staleness ------------------------------------------
    now,            \* std::chrono::steady_clock::now(), in milliseconds
    lastFrameTime   \* lastFrameTime of the single-stream receivers

clkVars == <<now, lastFrameTime>>

VARIABLES
    \* ---- display ------------------------------------------------------
    shown,      \* what each pane shows after the iteration (0 = NO SIGNAL)
    putTime,    \* history: the clock at the last store of each cache key
    lowerId     \* history: the frame stored last replaced the frame of the call
                \* before it and has a lower frame_id than that one

dispVars == <<shown, putTime, lowerId>>

VARIABLES
    \* ---- stream receivers --------------------------------------------
    wire,         \* bytes written to the connection and not yet read
    peerClosed,   \* the sender has closed its end
    connected,    \* SwitchableReceiver::connected / SwitchableSender::connected
    sentLog,      \* history: the frames the sender has written, in order
    gotLog,       \* history: the frames receiveFrame has returned, in order
    sawEof,       \* history: a recv on the connection has returned 0
    readAfterEof  \* history: a recv was made on it after one returned 0

stVars == <<wire, peerClosed, connected, sentLog, gotLog, sawEof, readAfterEof>>

VARIABLES
    \* ---- stream senders ----------------------------------------------
    snd,      \* the sender process: where its main is (pc), its socket (link),
              \* its connected flag, error_count, frame counter, and what it did last (op)
    peerUp    \* the receiver is listening

conVars == <<snd, peerUp>>

VARIABLES
    \* ---- capture callback and main loop ------------------------------
    frameMap,        \* frameMap of the sender (frame type -> frame)
    lastDepthFrame,  \* lastDepthFrame (0 = null)
    holder,          \* the thread that holds frameMutex
    cbPc,            \* where the capture callback thread is
    cbFrame,         \* the frame the callback is storing
    mainPc,          \* where the main loop is
    mainDepth,       \* the depth frame the main loop last worked on
    snap             \* colorFrame / depthFrame of the main loop's last snapshot

capVars ==
    <<frameMap, lastDepthFrame, holder, cbPc, cbFrame, mainPc, mainDepth, snap>>

VARIABLES
    \* ---- depth views ------------------------------------------------
    view,    \* PointCloudViewer: yaw and pitch (tenths of a radian) and zoom
    scene,   \* the depth frame and value scale given to the last update / project
    plots,   \* the samples that call projected, each with the pixel computed for it
    cloud,   \* Map3D: accumulate, accumulatedPoints / accumulatedColors, the
             \* points of the "Cloud" widget (shown) and the last call (op)
    canvas0, \* what map_image held when the last Map2D::update began
    outside, \* the samples the last depth view read beyond the received buffer
    proc     \* a process from main's first line to its exit: position, exit
             \* status, SO_RCVTIMEO, the exit key, the setup call that failed

vizVars == <<view, scene, plots, cloud, canvas0, outside>>

VARIABLES
    \* ---- sessions and modes ------------------------------------------
    sess,    \* a stream receiver and the sender that connects to it: the
             \* listening socket, the accepted session, the receiver's position
    ctl      \* a switchable pair: the receiver's mode and viewer child, the
             \* sender's mode, the command in flight, the frames of a round

ctlVars == <<sess, ctl>>

vars == <<dgVars, clkVars, dispVars, stVars, conVars, capVars, vizVars, proc, ctlVars>>

----------------------------------------------------------------------------
(* Bounds of the model.                                                    *)

\* Longest payload, in bytes, of a datagram that does not come from the sender.
MaxPayload == 2
\* Number of distinct images the capture device produces.
NumImages == 2
\* Number of frames a sender writes to a stream connection.
MaxFrames == 2
\* Number of recv calls of an iteration whose segment size is chosen.
MaxCuts == 2
\* Number of frames the capture pipeline hands to the callback.
MaxCaptures == 3
\* Number of frames a process is followed to receive or send.
MaxLoops == 2
\* Number of frame sends of a sender's main that are followed.
MaxSends == 14
\* Steps of a sender's main within which it is followed after a disconnect.
RecoverSteps == 16
\* The clock stops here, in milliseconds.
ClockEnd == 2000

----------------------------------------------------------------------------
(* Bytes and the 4-byte integers of the headers.  The senders store an int *)
(* through a cast int pointer into the packet and the receivers load it the *)
(* same way: the four bytes of the two's complement value, least           *)
(* significant first.                                                      *)

Images == 1..NumImages

\* A store of only the low 16 bits (a short written where an int is read).
PackIntShort(v) == << v % 256, (v \div 256) % 256, 0, 0 >>

\* int store into packet[k..k+3]: the four bytes of a 32-bit int.
PackInt(v) ==
    << v % 256, (v \div 256) % 256, (v \div 65536) % 256, (v \div 16777216) % 256 >>

\* int load from buffer[off..off+3] (0-based): the 32-bit int of the four bytes.
ReadInt(buf, off) ==
    LET b0 == buf[off + 1]
        b1 == buf[off + 2]
        b2 == buf[off + 3]
        b3 == buf[off + 4]
        hi == IF b3 >= 128 THEN b3 - 256 ELSE b3
    IN  hi * 16777216 + b2 * 65536 + b1 * 256 + b0

\* cv::imencode: the codec's byte blob for an image (a start marker, then the
\* image).  The codec is an external collaborator; only "decode inverts encode,
\* and bytes that are no blob decode to an empty Mat" is modelled.
ImEncode(img) == << 255, img >>

\* cv::imdecode: the image of a blob, 0 (an empty Mat) for anything else.
\* Bytes after a complete blob are ignored, as the JPEG/PNG readers do.
ImDecode(data) ==
    IF Len(data) >= 2 /\ data[1] = 255 /\ data[2] \in Images THEN data[2] ELSE 0

----------------------------------------------------------------------------
(* The UDP senders.                                                        *)

\* UDPSender::sendFrame / the inline packets of udp_switchable_sender:
\* [frame_id(4)][frame_type(4)][data_size(4)][data]
Packet12(frame_id, frame_type, buffer) ==
    PackInt(frame_id) \o PackInt(frame_type) \o PackInt(Len(buffer)) \o buffer

\* color_sender's sendFrame and submarine_sender_raw's sendRawData:
\* [frame_id(4)][data_size(4)][data]
Packet8(frame_id, buffer) ==
    PackInt(frame_id) \o PackInt(Len(buffer)) \o buffer

----------------------------------------------------------------------------
(* The UDP receivers.  A receive call is given n, the result of recvfrom   *)
(* (the datagram's length, or -1 for a timeout), and buf, the bytes the    *)
(* call stored.  It yields the record kept in ret:                          *)
(*   n          the result of recvfrom                                     *)
(*   parsed     the header fields were read                                *)
(*   ok         the call returned true                                     *)
(*   data       the payload bytes handed on that were received             *)
(*   over       how many payload bytes handed on lie beyond the n received *)
(*   overrun    the copy read beyond the end of the receive buffer         *)
(*   codec      cv::imdecode was called on the payload                     *)
(*   img        the decoded image, 0 for an empty Mat                      *)

NoRet ==
    [n |-> -1, parsed |-> FALSE, ok |-> FALSE, frame_id |-> 0, frame_type |-> 0,
     data_size |-> 0, data |-> <<>>, over |-> 0, overrun |-> FALSE,
     codec |-> FALSE, img |-> 0]

Max(a, b) == IF a >= b THEN a ELSE b
Min(a, b) == IF a <= b THEN a ELSE b

\* The receive call without its length test: the header is read from the
\* buffer whatever n was (the bytes beyond n read as zero).
MuxReceiveUnchecked(n, buf) ==
    LET stale == [i \in 1..12 |-> 0]
        whole == IF n < 12 THEN SubSeq(buf \o stale, 1, 12) ELSE buf
        frame_id   == ReadInt(whole, 0)
        frame_type == ReadInt(whole, 4)
        data_size  == ReadInt(whole, 8)
        hdr == [NoRet EXCEPT !.n = n, !.parsed = TRUE, !.frame_id = frame_id,
                             !.frame_type = frame_type, !.data_size = data_size]
    IN  IF frame_type < 0 \/ frame_type > 3 THEN hdr
        ELSE
          LET jpegData == SubSeq(whole, 13, Max(n, 12))
              decoded  == ImDecode(jpegData)
          IN  [hdr EXCEPT !.data = jpegData, !.codec = TRUE,
                          !.img = decoded, !.ok = (decoded # 0)]

\* submarine_receiver.cpp, UDPReceiver::receiveFrame
MuxReceiveFrame(n, buf) ==
    IF n < 12 THEN [NoRet EXCEPT !.n = n]
    ELSE
      LET frame_id   == ReadInt(buf, 0)
          frame_type == ReadInt(buf, 4)
          data_size  == ReadInt(buf, 8)
          hdr == [NoRet EXCEPT !.n = n, !.parsed = TRUE, !.frame_id = frame_id,
                               !.frame_type = frame_type, !.data_size = data_size]
      IN  IF frame_type < 0 \/ frame_type > 3 THEN hdr
          ELSE
            LET jpegData == SubSeq(buf, 13, n)
                decoded  == ImDecode(jpegData)
            IN  [hdr EXCEPT !.data = jpegData, !.codec = TRUE,
                            !.img = decoded, !.ok = (decoded # 0)]

\* udp_switchable_receiver.cpp, the receive path of main
UdpSwReceive(n, buf) ==
    IF n >= 12 THEN
      LET frame_id   == ReadInt(buf, 0)
          frame_type == ReadInt(buf, 4)
          data_size  == ReadInt(buf, 8)
          hdr == [NoRet EXCEPT !.n = n, !.parsed = TRUE, !.frame_id = frame_id,
                               !.frame_type = frame_type, !.data_size = data_size]
      IN  IF data_size > 0 /\ data_size < 2000000 THEN
            LET jpegData == SubSeq(buf, 13, n)
                decoded  == ImDecode(jpegData)
            IN  [hdr EXCEPT !.data = jpegData, !.codec = TRUE,
                            !.img = decoded, !.ok = (decoded # 0)]
          ELSE hdr
    ELSE [NoRet EXCEPT !.n = n]

\* color_receiver.cpp, UDPReceiver::receiveFrame
ColorReceiveFrame(n, buf) ==
    IF n < 8 THEN [NoRet EXCEPT !.n = n]
    ELSE
      LET frame_id  == ReadInt(buf, 0)
          data_size == ReadInt(buf, 4)
          hdr == [NoRet EXCEPT !.n = n, !.parsed = TRUE, !.frame_id = frame_id,
                               !.data_size = data_size]
      IN  IF data_size <= 0 \/ data_size > 2000000 THEN hdr
          ELSE
            LET jpegData == SubSeq(buf, 9, n)
                decoded  == ImDecode(jpegData)
            IN  [hdr EXCEPT !.data = jpegData, !.codec = TRUE,
                            !.img = decoded, !.ok = (decoded # 0)]

\* submarine_receiver_raw.cpp, UDPReceiver::receivePacket: the payload is the
\* data_size bytes of tempBuf that follow the header, whatever n was.  tempBuf
\* is a fresh vector of maxSize zero bytes, so the bytes beyond n are zeros and
\* a copy that ends beyond maxSize leaves the vector.
RawReceivePacket(n, buf) ==
    IF n < 8 THEN [NoRet EXCEPT !.n = n]
    ELSE
      LET frame_id  == ReadInt(buf, 0)
          data_size == ReadInt(buf, 4)
          hdr == [NoRet EXCEPT !.n = n, !.parsed = TRUE, !.frame_id = frame_id,
                               !.data_size = data_size]
      IN  IF data_size <= 0 \/ data_size > 2000000 THEN hdr
          ELSE [hdr EXCEPT !.data = SubSeq(buf, 9, Min(n, 8 + data_size)),
                           !.over = Max(0, 8 + data_size - n),
                           !.overrun = (8 + data_size > 2000000),
                           !.ok = TRUE]

\* submarine_receiver_raw.cpp, main: a packet that was received is decoded.
RawDecode(r) ==
    IF r.ok THEN [r EXCEPT !.codec = TRUE, !.img = ImDecode(r.data)] ELSE r

----------------------------------------------------------------------------
(* Stream sockets.  The receive side of a connection is the sequence of    *)
(* bytes written and not yet read (w).  One recv hands over at most the    *)
(* bytes asked for, at most what has arrived, and at most the segment the  *)
(* kernel delivers to this call; cuts holds the segment sizes of the calls *)
(* to come (no limit once it is used up).  When nothing has arrived recv   *)
(* returns 0 if the peer has closed and -1 (SO_RCVTIMEO expired) if not.   *)

\* TCPSender::sendFrame: [frame_id(4)][frame_type(4)][data_size(4)][data]
TcpPacket(frame_id, frame_type, buffer) == Packet12(frame_id, frame_type, buffer)

\* SwitchableSender::sendFrame: [frame_type(1)][data_size(4)][data]
Packet5(frame_type, buffer) ==
    << frame_type % 256 >> \o PackInt(Len(buffer)) \o buffer

\* the return value of one recv asking for `asked` bytes
RecvCount(w, asked, cuts, closed) ==
    IF w = <<>> THEN (IF closed THEN 0 ELSE -1)
    ELSE Min(Min(asked, Len(w)), IF cuts = <<>> THEN asked ELSE Head(cuts))

Drop(w, k) == SubSeq(w, k + 1, Len(w))

NextCuts(cuts) == IF cuts = <<>> THEN <<>> ELSE Tail(cuts)

RECURSIVE RecvLoop(_, _, _, _, _, _)
\* while (total_received < want) { n = recv(.., want - total_received, 0);
\*                                 if (n <= 0) return false; total_received += n; }
\* got: the bytes stored so far; calls: the recv calls made so far
RecvLoop(w, want, cuts, closed, got, calls) ==
    IF Len(got) >= want
    THEN [ok |-> TRUE, got |-> got, n |-> want, calls |-> calls,
          rest |-> w, cuts |-> cuts]
    ELSE
      LET n == RecvCount(w, want - Len(got), cuts, closed)
      IN  IF n <= 0
          THEN [ok |-> FALSE, got |-> got, n |-> n, calls |-> calls + 1,
                rest |-> w, cuts |-> NextCuts(cuts)]
          ELSE RecvLoop(Drop(w, n), want, NextCuts(cuts), closed,
                        got \o SubSeq(w, 1, n), calls + 1)

\* submarine_receiver_tcp.cpp, TCPReceiver::receiveFrame.  The result holds
\* the record kept in ret (n is what recv returned when a read failed, the
\* bytes of the last part read otherwise), the bytes left unread, the number
\* of recv calls made, and the connected flag (this
\* receiver keeps none).
TcpReceiveFrame(w, cuts, closed) ==
    LET h == RecvLoop(w, 12, cuts, closed, <<>>, 0)
    IN  IF ~h.ok
        THEN [ret |-> [NoRet EXCEPT !.n = h.n], rest |-> h.rest,
              calls |-> h.calls, connected |-> TRUE]
        ELSE
          LET frame_id   == ReadInt(h.got, 0)
              frame_type == ReadInt(h.got, 4)
              data_size  == ReadInt(h.got, 8)
              hdr == [NoRet EXCEPT !.n = h.n, !.parsed = TRUE,
                                   !.frame_id = frame_id,
                                   !.frame_type = frame_type,
                                   !.data_size = data_size]
          IN  IF frame_type < 0 \/ frame_type > 3
                 \/ data_size <= 0 \/ data_size > 2000000
              THEN [ret |-> hdr, rest |-> h.rest, calls |-> h.calls,
                    connected |-> TRUE]
              ELSE
                LET p == RecvLoop(h.rest, data_size, h.cuts, closed, <<>>, h.calls)
                    decoded == ImDecode(p.got)
                IN  IF ~p.ok
                    THEN [ret |-> [hdr EXCEPT !.n = p.n, !.data = p.got],
                          rest |-> p.rest, calls |-> p.calls, connected |-> TRUE]
                    ELSE [ret |-> [hdr EXCEPT !.n = p.n, !.data = p.got,
                                              !.codec = TRUE, !.img = decoded,
                                              !.ok = (decoded # 0)],
                          rest |-> p.rest, calls |-> p.calls, connected |-> TRUE]

\* switchable_receiver.cpp, SwitchableReceiver::receiveFrame: the header is
\* read with one recv of 5 bytes; frame_type is header[0] as it comes.
SwitchReceiveFrame(w, cuts, closed, isConnected) ==
    IF ~isConnected
    THEN [ret |-> NoRet, rest |-> w, calls |-> 0, connected |-> FALSE]
    ELSE
      LET n == RecvCount(w, 5, cuts, closed)
      IN  IF n # 5
          THEN [ret |-> [NoRet EXCEPT !.n = n],
                rest |-> IF n > 0 THEN Drop(w, n) ELSE w,
                calls |-> 1, connected |-> (n # 0)]
          ELSE
            LET frame_type == w[1]
                data_size  == ReadInt(w, 1)
                hdr == [NoRet EXCEPT !.n = n, !.parsed = TRUE,
                                     !.frame_type = frame_type,
                                     !.data_size = data_size]
            IN  IF data_size <= 0 \/ data_size > 5000000
                THEN [ret |-> hdr, rest |-> Drop(w, 5), calls |-> 1,
                      connected |-> TRUE]
                ELSE
                  LET p == RecvLoop(Drop(w, 5), data_size, NextCuts(cuts),
                                    closed, <<>>, 1)
                      decoded == ImDecode(p.got)
                  IN  IF ~p.ok
                      THEN [ret |-> [hdr EXCEPT !.n = p.n, !.data = p.got],
                            rest |-> p.rest, calls |-> p.calls,
                            connected |-> FALSE]
                      ELSE [ret |-> [hdr EXCEPT !.n = p.n, !.data = p.got,
                                                !.codec = TRUE, !.img = decoded,
                                                !.ok = (decoded # 0)],
                            rest |-> p.rest, calls |-> p.calls,
                            connected |-> TRUE]

----------------------------------------------------------------------------
(* The frame caches.                                                       *)

\* std::map operator[] assignment: the entry of key k becomes v.
MapPut(m, k, v) == [x \in (DOMAIN m) \cup {k} |-> IF x = k THEN v ELSE m[x]]

EmptyMap == [x \in {} |-> 0]

\* submarine_receiver.cpp, FrameBuffer::update (no timestamp is kept)
PlainUpdate(m, frameType, frame) == MapPut(m, frameType, frame)

\* std::map::insert: the entry is stored only if the key has none yet.
TimedInsert(m, frameType, frame, t) ==
    IF frameType \in DOMAIN m THEN m
    ELSE MapPut(m, frameType, [frame |-> frame, timestamp |-> t])

\* FrameBuffer::update of the timed caches (submarine_receiver_tcp.cpp,
\* switchable_receiver.cpp, udp_switchable_receiver.cpp)
TimedUpdate(m, frameType, frame, t) ==
    MapPut(m, frameType, [frame |-> frame, timestamp |-> t])

\* FrameBuffer::get of submarine_receiver.cpp: the entry if there is one
PlainGet(m, frameType) == IF frameType \in DOMAIN m THEN m[frameType] ELSE 0

\* FrameBuffer::get of the timed caches: the entry if there is one and its age,
\* in milliseconds at time t, is below timeout_ms
TimedGet(m, frameType, t) ==
    IF frameType \in DOMAIN m /\ t - m[frameType].timestamp < 2000
    THEN m[frameType].frame
    ELSE 0

\* a get that erases the entry it finds too old
GetErasesStale(m, frameType, t) ==
    IF frameType \in DOMAIN m /\ ~(t - m[frameType].timestamp < 2000)
    THEN [k \in DOMAIN m \ {frameType} |-> m[k]]
    ELSE m

\* FrameBuffer::get of the timed caches, the map after the call: the entry
\* is looked up with frames.find and nothing is written
AfterGet(m, frameType, t) == m

RECURSIVE AfterGets(_, _, _)
\* the map after the gets of the frame types in types
AfterGets(m, types, t) ==
    IF types = {} THEN m
    ELSE LET k == CHOOSE j \in types : TRUE
         IN  AfterGets(AfterGet(m, k, t), types \ {k}, t)

\* submarine_receiver_raw.cpp, main: hasDepth after the "too old" check
RawHasDepth(depth, stamp, t) == depth # 0 /\ ~(t - stamp > 2000)

\* color_receiver.cpp, main: the last frame is shown while it is younger than 1 s
ColorLive(frame, stamp, t) == frame # 0 /\ t - stamp < 1000

----------------------------------------------------------------------------
(* The rest of a receiver's loop iteration once the receive call returned  *)
(* r: store the frame, then read the cache for the display.  shown is what *)
(* each pane displays, 0 for the NO SIGNAL text.  putTime is not program   *)
(* state: it records the clock at the last store of each key, so that the  *)
(* age of a shown value can be stated for the caches that keep no stamp.   *)

\* the frame of call r has the type of the frame the call before it returned
\* and a lower frame_id
Regress(prev, r) ==
    prev.ok /\ prev.img # 0 /\ r.frame_type = prev.frame_type
            /\ r.frame_id < prev.frame_id

\* a loop that keeps a frame only if its frame_id is not below the frame_id of
\* the frame received before it
StoredIfNewer(prev, r) == r.ok /\ (prev.ok => r.frame_id >= prev.frame_id)

\* the receive loops: a frame the receive call returned is stored; frame_id
\* is parsed and compared with nothing
Stored(prev, r) == r.ok

\* the frame types the display reads from the FrameBuffer
ShownTypes == IF variant \in {"udpsw", "switch"} THEN 0..2 ELSE 0..3

\* submarine_receiver.cpp, main: frameBuffer.update, then the four gets
MuxStore(r) ==
    /\ frames' = IF r.ok THEN PlainUpdate(frames, r.frame_type, r.img) ELSE frames
    /\ shown' = [t \in ShownTypes |-> PlainGet(frames', t)]
    /\ putTime' = IF r.ok THEN MapPut(putTime, r.frame_type, now) ELSE putTime
    /\ lowerId' = (r.ok /\ Regress(ret, r))
    /\ UNCHANGED <<lastFrame, lastFrameTime>>

\* submarine_receiver_tcp.cpp, switchable_receiver.cpp and
\* udp_switchable_receiver.cpp, main: frameBuffer.update, then the gets
TimedStore(r) ==
    LET put == IF r.ok THEN TimedUpdate(frames, r.frame_type, r.img, now)
               ELSE frames
    IN  /\ shown' = [t \in ShownTypes |-> TimedGet(put, t, now)]
        /\ frames' = AfterGets(put, ShownTypes, now)
        /\ putTime' = IF r.ok THEN MapPut(putTime, r.frame_type, now) ELSE putTime
        /\ lowerId' = (r.ok /\ Regress(ret, r))
        /\ UNCHANGED <<lastFrame, lastFrameTime>>

\* color_receiver.cpp, main: lastFrame / lastFrameTime, then the display
ColorStore(r) ==
    /\ lastFrame' = IF r.ok THEN r.img ELSE lastFrame
    /\ lastFrameTime' = IF r.ok THEN now ELSE lastFrameTime
    /\ shown' = (0 :> IF ColorLive(lastFrame', lastFrameTime', now)
                      THEN lastFrame' ELSE 0)
    /\ putTime' = IF r.ok THEN MapPut(putTime, 0, now) ELSE putTime
    /\ lowerId' = (r.ok /\ Regress(ret, r))
    /\ UNCHANGED frames

\* submarine_receiver_raw.cpp, main: lastDepth / lastFrameTime, then the views
RawStore(r) ==
    /\ lastFrame' = IF r.ok /\ r.img # 0 THEN r.img ELSE lastFrame
    /\ lastFrameTime' = IF r.ok /\ r.img # 0 THEN now ELSE lastFrameTime
    /\ shown' = (0 :> IF RawHasDepth(lastFrame', lastFrameTime', now)
                      THEN lastFrame' ELSE 0)
    /\ putTime' = IF r.ok /\ r.img # 0 THEN MapPut(putTime, 0, now) ELSE putTime
    /\ lowerId' = (r.ok /\ r.img # 0 /\ Regress(ret, r))
    /\ UNCHANGED frames

Store(r) ==
    CASE variant = "mux"   -> MuxStore(r)
      [] variant = "color" -> ColorStore(r)
      [] variant = "raw"   -> RawStore(r)
      [] OTHER             -> TimedStore(r)

\* the receive call of each receiver on a message that arrived whole
Receive(n, buf) ==
    CASE variant = "mux"   -> MuxReceiveFrame(n, buf)
      [] variant = "udpsw" -> UdpSwReceive(n, buf)
      [] variant = "color" -> ColorReceiveFrame(n, buf)
      [] variant = "raw"   -> RawDecode(RawReceivePacket(n, buf))
      [] variant = "tcp"   -> TcpReceiveFrame(buf, <<>>, FALSE).ret

\* one iteration of a receiver's main loop
ReceiverLoop(n, buf) ==
    LET r == Receive(n, buf)
    IN  ret' = r /\ Store([r EXCEPT !.ok = Stored(ret, r)])

----------------------------------------------------------------------------
(* What a UDP socket can hand to recvfrom: a packet of the matching sender,*)
(* a datagram of any other origin, or nothing before the timeout.          *)

UdpVariants == {"mux", "udpsw", "color", "raw"}

\* the deployments whose header is [frame_id][frame_type][data_size]
Framed12 == {"mux", "udpsw", "tcp"}

HeaderSize(v) == IF v \in Framed12 THEN 12 ELSE 8

NoTx == [sent |-> FALSE, frame_id |-> 0, frame_type |-> 0, frame |-> 0, buffer |-> <<>>]

\* frame ids the sender's counter takes (it wraps silently)
SenderIds == {5, -1, 70000}

\* frame types the senders write (they write 0..3; two of them are drawn)
SenderTypes(v) ==
    IF v \in Framed12 THEN {0, 3} ELSE IF v = "switch" THEN {0, 2} ELSE {0}

\* the packet the sender of deployment v builds for a call
SenderPacket(v, tx) ==
    CASE v \in {"mux", "udpsw"} -> Packet12(tx.frame_id, tx.frame_type, tx.buffer)
      [] v = "tcp" -> TcpPacket(tx.frame_id, tx.frame_type, tx.buffer)
      [] OTHER -> Packet8(tx.frame_id, tx.buffer)

RECURSIVE SeqsUpTo(_, _)
\* all sequences over S of length at most k
SeqsUpTo(S, k) ==
    IF k = 0 THEN {<<>>}
    ELSE LET shorter == SeqsUpTo(S, k - 1)
         IN  shorter \cup {Append(q, x) : q \in shorter, x \in S}

ForeignTypes == {-1, 0, 4}
ForeignSizes == {-1, 0, 2, 3, 2000000, 2000001}
ForeignPayloads == SeqsUpTo({255, 1}, MaxPayload)

\* 12-byte-header datagrams of another origin: any declared type and size
\* before a decodable payload, and any declared size before any payload
ForeignDatagrams12 ==
    {PackInt(7) \o PackInt(ty) \o PackInt(sz) \o ImEncode(1) :
        ty \in ForeignTypes, sz \in ForeignSizes}
    \cup
    {PackInt(7) \o PackInt(0) \o PackInt(sz) \o pl :
        sz \in ForeignSizes, pl \in ForeignPayloads}

\* 8-byte-header datagrams of another origin
ForeignDatagrams8 ==
    {PackInt(7) \o PackInt(sz) \o pl : sz \in ForeignSizes, pl \in ForeignPayloads}

\* datagrams shorter than the header
ShortDatagrams(v) ==
    {SubSeq(PackInt(7) \o PackInt(0) \o PackInt(2), 1, k) : k \in {0, HeaderSize(v) - 1}}

ForeignDatagrams(v) ==
    (IF v \in {"mux", "udpsw"} THEN ForeignDatagrams12 ELSE ForeignDatagrams8)
    \cup ShortDatagrams(v)

\* the main loop has taken no snapshot: colorFrame and depthFrame are null
NoSnap == [COLOR |-> 0, DEPTH |-> 0]

\* a sender process about to run its main
NoSnd ==
    [pc |-> "start", link |-> "fresh", connected |-> FALSE, error_count |-> 0,
     frame_id |-> 0, op |-> "none", poll |-> "none", sockfd |-> "open", stale |-> {}]

\* no sender process and no capture pipeline in the deployment
InitIdle ==
    /\ snd = NoSnd
    /\ peerUp = FALSE
    /\ frameMap = EmptyMap
    /\ lastDepthFrame = 0
    /\ holder = "none"
    /\ cbPc = "idle"
    /\ cbFrame = 0
    /\ mainPc = "loop"
    /\ mainDepth = 0
    /\ snap = NoSnap

\* a connection just accepted, nothing written to it yet
InitStream ==
    /\ wire = <<>>
    /\ peerClosed = FALSE
    /\ connected = TRUE
    /\ sentLog = <<>>
    /\ gotLog = <<>>
    /\ sawEof = FALSE
    /\ readAfterEof = FALSE

InitDg ==
    /\ variant \in UdpVariants
    /\ txArgs = NoTx
    /\ ret = NoRet
    /\ frames = EmptyMap
    /\ lastFrame = 0

\* the sender sends image img as frame id of type ty, and it arrives
DeliverFrame(id, ty, img) ==
    LET tx == [sent |-> TRUE, frame_id |-> id, frame_type |-> ty,
               frame |-> img, buffer |-> ImEncode(img)]
        pkt == SenderPacket(variant, tx)
    IN  /\ txArgs' = tx
        /\ ReceiverLoop(Len(pkt), pkt)
        /\ UNCHANGED <<variant, now, stVars, conVars, capVars, vizVars, proc, ctlVars>>

\* the sender's packet arrives
DeliverSent ==
    \E id \in SenderIds, ty \in SenderTypes(variant), img \in Images :
        DeliverFrame(id, ty, img)

\* a datagram of another origin arrives
DeliverForeign ==
    \E d \in ForeignDatagrams(variant) :
      /\ txArgs' = NoTx
      /\ ReceiverLoop(Len(d), d)
      /\ UNCHANGED <<variant, now, stVars, conVars, capVars, vizVars, proc, ctlVars>>

\* SO_RCVTIMEO expires: the receive call returns -1 (submarine_receiver sets
\* no timeout)
RecvTimeout ==
    /\ variant # "mux"
    /\ txArgs' = NoTx
    /\ ReceiverLoop(-1, <<>>)
    /\ UNCHANGED <<variant, now, stVars, conVars, capVars, vizVars, proc, ctlVars>>

\* no process is followed from its start
NoProc ==
    [pc |-> "none", step |-> 0, status |-> 0, usage |-> FALSE, failed |-> "none",
     rcvtimeo |-> FALSE, esc |-> FALSE, peerGone |-> FALSE, frameCount |-> 0]

\* no stream receiver is followed: nothing listens, nothing was accepted
NoSess ==
    [rx |-> "none", listening |-> FALSE, connected |-> FALSE, link |-> "none",
     accepted |-> FALSE, cached |-> {}, op |-> "none"]

\* no switchable pair is followed
NoCtl ==
    [rxPc |-> "none", rxMode |-> 0, sndMode |-> 0, cmds |-> <<>>, link |-> "none",
     rxConnected |-> FALSE, pid |-> 0, children |-> 0, iterMode |-> 0, emitted |-> <<>>,
     keys |-> 0, foreign |-> 0, lost |-> FALSE, op |-> "none"]

InitCtl == sess = NoSess /\ ctl = NoCtl

\* PointCloudViewer as constructed: yaw = 0.0f, pitch = 0.5f, zoom = 150.0f
NewView == [yaw |-> 0, pitch |-> 5, zoom |-> 150]

\* no depth frame has been given to a map or a viewer
NoScene == [row |-> 0, col |-> 0, raw |-> 0, scale |-> 0]

\* Map3D as constructed: accumulate = true, no points, no widget
NewCloud ==
    [accumulate |-> TRUE, points |-> <<>>, colors |-> <<>>, shown |-> <<>>,
     op |-> "none"]

InitViz ==
    /\ view = NewView
    /\ scene = NoScene
    /\ plots = {}
    /\ cloud = NewCloud
    /\ canvas0 = {}
    /\ outside = {}

InitClk ==
    /\ now = 0
    /\ lastFrameTime = 0
    /\ shown = [t \in ShownTypes |-> 0]
    /\ putTime = EmptyMap
    /\ lowerId = FALSE

Init == InitDg /\ InitClk /\ InitStream /\ InitIdle /\ InitViz /\ proc = NoProc /\ InitCtl

NextDatagram == DeliverSent \/ DeliverForeign \/ RecvTimeout

SpecDatagram == Init /\ [][NextDatagram]_vars

----------------------------------------------------------------------------
(* The caches over time.  The clock advances between loop iterations; an   *)
(* iteration stores what it received at the current time and then reads    *)
(* the cache for the display.                                              *)

\* the receivers whose FrameBuffer stamps its entries
TimedVariants == {"tcp", "udpsw"}

\* the age, in milliseconds, from which a receiver treats its value as absent:
\* timeout_ms of the timed FrameBuffer, the "too old" bound of
\* submarine_receiver_raw, the display bound of color_receiver.  The
\* FrameBuffer of submarine_receiver has no bound of its own; it is held to the
\* one of the other multiplexed receivers.
Ttl(v) == IF v = "color" THEN 1000 ELSE 2000

\* the deployments whose cache is followed over time
CacheVariants == UdpVariants \cup {"tcp"}

\* time that passes between two iterations, in milliseconds
TickSteps == {999, 1000, 2000}

InitCache ==
    /\ variant \in CacheVariants
    /\ txArgs = NoTx
    /\ ret = NoRet
    /\ frames = EmptyMap
    /\ lastFrame = 0
    /\ InitClk
    /\ InitStream
    /\ InitViz
    /\ proc = NoProc
    /\ InitCtl
    /\ InitIdle

\* a frame of the sender arrives and the iteration stores and displays it
CacheDeliver ==
    \E ty \in SenderTypes(variant), img \in Images : DeliverFrame(5, ty, img)

\* time passes
Tick ==
    \E d \in TickSteps :
      /\ now + d <= ClockEnd
      /\ now' = now + d
      /\ UNCHANGED <<dgVars, lastFrameTime, dispVars, stVars, conVars, capVars, vizVars,
                     proc, ctlVars>>

NextCache == CacheDeliver \/ RecvTimeout \/ Tick

SpecCache == InitCache /\ [][NextCache]_vars

----------------------------------------------------------------------------
(* The TCP receivers.  The sender writes whole frames to the connection;   *)
(* an iteration of the receiver's main loop calls receiveFrame, whose recv *)
(* calls get the bytes in segments of any size, stores a frame that was    *)
(* returned and reads the cache for the display.                           *)

StreamVariants == {"tcp", "switch"}

\* segment sizes the kernel hands to the recv calls of one iteration
CutSizes == {1, 3}
CutSeqs == SeqsUpTo(CutSizes, MaxCuts)

\* the bytes the sender of deployment v writes for a frame
StreamPacket(v, f) ==
    IF v \in {"tcp", "tcpsend"} THEN TcpPacket(f.frame_id, f.frame_type, ImEncode(f.frame))
    ELSE Packet5(f.frame_type, ImEncode(f.frame))

\* the frame a receive call returned, as the sender logged it (the 5-byte
\* header carries no frame_id)
Returned(v, r) ==
    [frame_id |-> IF v = "tcp" THEN r.frame_id ELSE 0,
     frame_type |-> r.frame_type, frame |-> r.img]

\* the receive call of the deployment
StreamReceive(w, cuts) ==
    IF variant = "tcp" THEN TcpReceiveFrame(w, cuts, peerClosed)
    ELSE SwitchReceiveFrame(w, cuts, peerClosed, connected)

InitSt ==
    /\ variant \in StreamVariants
    /\ txArgs = NoTx
    /\ ret = NoRet
    /\ frames = EmptyMap
    /\ lastFrame = 0
    /\ InitClk
    /\ InitStream
    /\ InitViz
    /\ proc = NoProc
    /\ InitCtl
    /\ InitIdle

\* the sender writes a frame: header and payload
StreamSend ==
    /\ ~peerClosed
    /\ Len(sentLog) < MaxFrames
    /\ \E ty \in SenderTypes(variant), img \in Images :
         LET f == [frame_id |-> IF variant = "tcp" THEN Len(sentLog) ELSE 0,
                   frame_type |-> ty, frame |-> img]
         IN  /\ wire' = wire \o StreamPacket(variant, f)
             /\ sentLog' = Append(sentLog, f)
    /\ UNCHANGED <<dgVars, clkVars, dispVars, conVars, capVars, vizVars, proc, ctlVars,
                   peerClosed, connected, gotLog, sawEof, readAfterEof>>

\* the peer's process ends and its socket is closed
StreamClose ==
    /\ ~peerClosed
    /\ peerClosed' = TRUE
    /\ UNCHANGED <<dgVars, clkVars, dispVars, conVars, capVars, vizVars, proc, ctlVars,
                   wire, connected, sentLog, gotLog, sawEof, readAfterEof>>

\* one iteration of the receiver's main loop
StreamIter ==
    \E cuts \in CutSeqs :
      LET r == StreamReceive(wire, cuts)
      IN  /\ ret' = r.ret
          /\ wire' = r.rest
          /\ connected' = r.connected
          /\ gotLog' = IF r.ret.ok THEN Append(gotLog, Returned(variant, r.ret))
                       ELSE gotLog
          /\ sawEof' = (sawEof \/ (r.calls > 0 /\ r.ret.n = 0))
          /\ readAfterEof' = (readAfterEof \/ (sawEof /\ r.calls > 0))
          /\ Store(r.ret)
          /\ UNCHANGED <<variant, txArgs, now, peerClosed, sentLog,
                         conVars, capVars, vizVars, proc, ctlVars>>

NextStream == StreamSend \/ StreamClose \/ StreamIter

SpecStream == InitSt /\ [][NextStream]_vars

----------------------------------------------------------------------------
(* The TCP senders.  snd.link is the state of the sender's socket: "fresh" *)
(* (created, never connected), "established", or "broken" (it was          *)
(* connected and the receiver has gone).  connect succeeds on a fresh      *)
(* socket while the receiver listens, is refused while it does not, and    *)
(* fails with EISCONN on a socket that has been connected.  A send on a    *)
(* broken connection is taken to return -1, the outcome in which the       *)
(* process survives (no sender ignores SIGPIPE).  One step of a sender is   *)
(* its main up to and including the next connect or frame send.            *)

SenderVariants == {"tcpsend", "camera"}

\* ::connect on the sender's socket
ConnectOk(s, up) == s.link = "fresh" /\ up

\* submarine_sender_tcp.cpp: the TCPSender constructor, then the main loop
\* with TCPSender::sendFrame
TcpSenderStep(s, up) ==
    CASE s.pc = "start" ->
           IF ConnectOk(s, up)
           THEN [s EXCEPT !.pc = "stream", !.link = "established",
                          !.connected = TRUE, !.op = "connected"]
           ELSE [s EXCEPT !.pc = "exited", !.op = "connect_failed"]
      [] s.pc = "stream" ->
           IF s.link = "established"
           THEN [s EXCEPT !.op = "sent", !.frame_id = @ + 1]
           ELSE [s EXCEPT !.op = "send_failed", !.frame_id = @ + 1]
      [] OTHER -> s

\* CameraSender::sendFrame entered although connected is false
SendUnguarded(s) == "send_failed"

\* CameraSender::sendFrame with connected false: return false before
\* anything is written
SendGuarded(s) == "not_connected"

\* camera_sender.cpp: main with CameraSender::connect and ::sendFrame
CameraSenderStep(s, up) ==
    CASE s.pc \in {"start", "connect"} ->
           IF ConnectOk(s, up)
           THEN [s EXCEPT !.pc = "stream", !.link = "established",
                          !.connected = TRUE, !.error_count = 0,
                          !.op = "connected"]
           ELSE [s EXCEPT !.pc = "connect", !.op = "connect_failed"]
      [] s.pc = "stream" ->
           IF s.connected /\ s.link = "established"
           THEN [s EXCEPT !.op = "sent", !.frame_id = @ + 1]
           ELSE [s EXCEPT !.connected = FALSE,
                          !.frame_id = @ + 1,
                          !.error_count = s.error_count + 1,
                          !.op = IF s.connected THEN "send_failed" ELSE SendGuarded(s),
                          !.pc = IF s.error_count + 1 > 10 THEN "connect"
                                 ELSE "stream"]
      [] OTHER -> s

SenderStep(v, s, up) ==
    IF v = "tcpsend" THEN TcpSenderStep(s, up) ELSE CameraSenderStep(s, up)

InitCon ==
    /\ variant \in SenderVariants
    /\ txArgs = NoTx
    /\ ret = NoRet
    /\ frames = EmptyMap
    /\ lastFrame = 0
    /\ InitClk
    /\ InitStream
    /\ InitViz
    /\ proc = NoProc
    /\ InitCtl
    /\ snd = NoSnd
    /\ peerUp \in BOOLEAN
    /\ frameMap = EmptyMap
    /\ lastDepthFrame = 0
    /\ holder = "none"
    /\ cbPc = "idle"
    /\ cbFrame = 0
    /\ mainPc = "loop"
    /\ mainDepth = 0
    /\ snap = NoSnap

\* the sender runs its next step
SenderRun ==
    /\ snd.pc # "exited"
    /\ snd.frame_id < MaxSends
    /\ snd' = SenderStep(variant, snd, peerUp)
    /\ UNCHANGED <<dgVars, clkVars, dispVars, stVars, peerUp, capVars, vizVars, proc, ctlVars>>

\* the receiver process ends: an established connection is lost
PeerDown ==
    /\ peerUp
    /\ peerUp' = FALSE
    /\ snd' = [snd EXCEPT !.link = IF @ = "established" THEN "broken" ELSE @]
    /\ UNCHANGED <<dgVars, clkVars, dispVars, stVars, capVars, vizVars, proc, ctlVars>>

\* the receiver is started (again) and listens
PeerUp ==
    /\ ~peerUp
    /\ peerUp' = TRUE
    /\ UNCHANGED <<dgVars, clkVars, dispVars, stVars, snd, capVars, vizVars, proc, ctlVars>>

NextConnect == SenderRun \/ PeerDown \/ PeerUp

SpecConnect == InitCon /\ [][NextConnect]_vars

----------------------------------------------------------------------------
(* The capture callback and the main loop of a sender.  The pipeline calls *)
(* the callback on its own thread; the main loop runs on the main thread.  *)
(* A thread that is at an access of a shared object is in the middle of    *)
(* it: the step that leaves the place completes the access.  Frames are    *)
(* numbered as they are captured.  A read of lastDepthFrame that overlaps  *)
(* the callback's assignment to it is a data race: it may yield the old    *)
(* pointer, the new one, or a mix of the two (Torn).                       *)

CaptureVariants == {"tcpsend", "map3d"}

Torn == -1

\* where the main loop of the deployment starts an iteration
LoopStart(v) == IF v = "tcpsend" THEN "loop" ELSE "testDepth"

\* what a read of lastDepthFrame made without the mutex can yield
RacyRead ==
    IF cbPc = "wrDepth" THEN {lastDepthFrame, cbFrame.id, Torn}
    ELSE {lastDepthFrame}

\* what a find of frame type ty in frameMap can yield: the entry, or any
\* outcome of the race if the callback is at its assignment to that entry
MapRead(ty) ==
    IF cbPc = "wrMap" /\ cbFrame.type = ty
    THEN {PlainGet(frameMap, ty), cbFrame.id, Torn}
    ELSE {PlainGet(frameMap, ty)}

InitCap ==
    /\ variant \in CaptureVariants
    /\ txArgs = NoTx
    /\ ret = NoRet
    /\ frames = EmptyMap
    /\ lastFrame = 0
    /\ InitClk
    /\ InitStream
    /\ InitViz
    /\ proc = NoProc
    /\ InitCtl
    /\ snd = NoSnd
    /\ peerUp = FALSE
    /\ frameMap = EmptyMap
    /\ lastDepthFrame = 0
    /\ holder = "none"
    /\ cbPc = "idle"
    /\ cbFrame = [type |-> "COLOR", id |-> 0]
    /\ mainPc = LoopStart(variant)
    /\ mainDepth = 0
    /\ snap = NoSnap

\* callback: the next frame of the frameset, unique_lock lk(frameMutex)
\* (the callback of submarine_3d_map keeps no frameMap)
CbLock ==
    /\ cbPc = "idle"
    /\ holder = "none"
    /\ cbFrame.id < MaxCaptures
    /\ \E ty \in {"COLOR", "DEPTH"} :
         /\ cbFrame' = [type |-> ty, id |-> cbFrame.id + 1]
         /\ cbPc' = IF variant = "tcpsend" THEN "wrMap"
                    ELSE IF ty = "DEPTH" THEN "wrDepth" ELSE "unlock"
    /\ holder' = "cb"
    /\ UNCHANGED <<dgVars, clkVars, dispVars, stVars, conVars, vizVars, proc, ctlVars,
                   frameMap, lastDepthFrame, mainPc, mainDepth, snap>>

\* callback of submarine_sender_tcp: frameMap[frame->type()] = frame
CbWriteMap ==
    /\ cbPc = "wrMap"
    /\ frameMap' = MapPut(frameMap, cbFrame.type, cbFrame.id)
    /\ cbPc' = IF cbFrame.type = "DEPTH" THEN "wrDepth" ELSE "unlock"
    /\ UNCHANGED <<dgVars, clkVars, dispVars, stVars, conVars, vizVars, proc, ctlVars,
                   cbFrame, lastDepthFrame, holder, mainPc, mainDepth, snap>>

\* callback: the frame is no depth frame; lk is released at the end of the
\* loop body
CbUnlock ==
    /\ cbPc = "unlock"
    /\ cbPc' = "idle"
    /\ holder' = "none"
    /\ UNCHANGED <<dgVars, clkVars, dispVars, stVars, conVars, vizVars, proc, ctlVars,
                   cbFrame, frameMap, lastDepthFrame, mainPc, mainDepth, snap>>

\* callback: lastDepthFrame = frame->as<ob::DepthFrame>(); lk is released
CbWriteDepth ==
    /\ cbPc = "wrDepth"
    /\ lastDepthFrame' = cbFrame.id
    /\ cbPc' = "idle"
    /\ holder' = "none"
    /\ UNCHANGED <<dgVars, clkVars, dispVars, stVars, conVars, vizVars, proc, ctlVars,
                   cbFrame, frameMap, mainPc, mainDepth, snap>>

\* The snapshot entered without frameMutex: the main loop does not wait for
\* the callback to leave its critical section.
MainNoLock ==
    /\ mainPc = "loop"
    /\ mainPc' = "rdMap"
    /\ UNCHANGED <<dgVars, clkVars, dispVars, stVars, conVars, vizVars, proc, ctlVars,
                   cbPc, cbFrame, frameMap, lastDepthFrame, holder, mainDepth, snap>>

\* submarine_sender_tcp main: unique_lock lock(frameMutex) of the snapshot
MainLock ==
    /\ mainPc = "loop"
    /\ holder = "none"
    /\ holder' = "main"
    /\ mainPc' = "rdMap"
    /\ UNCHANGED <<dgVars, clkVars, dispVars, stVars, conVars, vizVars, proc, ctlVars,
                   cbPc, cbFrame, frameMap, lastDepthFrame, mainDepth, snap>>

\* submarine_sender_tcp main: the frameMap.find calls; lock is released
MainSnapshot ==
    /\ mainPc = "rdMap"
    /\ \E c \in MapRead("COLOR"), d \in MapRead("DEPTH") :
         snap' = [COLOR |-> c, DEPTH |-> d]
    /\ holder' = "none"
    /\ mainPc' = "testDepth"
    /\ UNCHANGED <<dgVars, clkVars, dispVars, stVars, conVars, vizVars, proc, ctlVars,
                   cbPc, cbFrame, frameMap, lastDepthFrame, mainDepth>>

\* main: if (lastDepthFrame ...), read without the mutex
MainTestDepth ==
    /\ mainPc = "testDepth"
    /\ \E v \in RacyRead :
         mainPc' = IF v = 0 THEN LoopStart(variant)
                   ELSE IF variant = "tcpsend" THEN "useDepth" ELSE "lockUse"
    /\ UNCHANGED <<dgVars, clkVars, dispVars, stVars, conVars, vizVars, proc, ctlVars,
                   cbPc, cbFrame, frameMap, lastDepthFrame, holder, mainDepth, snap>>

\* submarine_sender_tcp main: mapper.update(lastDepthFrame), without the mutex
MainUseDepth ==
    /\ mainPc = "useDepth"
    /\ \E v \in RacyRead : mainDepth' = v
    /\ mainPc' = LoopStart(variant)
    /\ UNCHANGED <<dgVars, clkVars, dispVars, stVars, conVars, vizVars, proc, ctlVars,
                   cbPc, cbFrame, frameMap, lastDepthFrame, holder, snap>>

\* submarine_3d_map main: unique_lock lock(frameMutex) inside the if
MainLockUse ==
    /\ mainPc = "lockUse"
    /\ holder = "none"
    /\ holder' = "main"
    /\ mainPc' = "rdDepth"
    /\ UNCHANGED <<dgVars, clkVars, dispVars, stVars, conVars, vizVars, proc, ctlVars,
                   cbPc, cbFrame, frameMap, lastDepthFrame, mainDepth, snap>>

\* submarine_3d_map main: map3d.update(lastDepthFrame); lock is released
MainUseLocked ==
    /\ mainPc = "rdDepth"
    /\ mainDepth' = lastDepthFrame
    /\ holder' = "none"
    /\ mainPc' = LoopStart(variant)
    /\ UNCHANGED <<dgVars, clkVars, dispVars, stVars, conVars, vizVars, proc, ctlVars,
                   cbPc, cbFrame, frameMap, lastDepthFrame, snap>>

NextCapture ==
    \/ CbLock \/ CbWriteMap \/ CbUnlock \/ CbWriteDepth
    \/ MainLock \/ MainSnapshot \/ MainTestDepth \/ MainUseDepth
    \/ MainLockUse \/ MainUseLocked

SpecCapture == InitCap /\ [][NextCapture]_vars

----------------------------------------------------------------------------
(* The TCP senders writing frames.  One send hands the kernel at most the  *)
(* bytes given; it may take fewer (a short write) or none and return -1    *)
(* (interrupted, or the send buffer stayed full), and the connection       *)
(* remains usable after either.  outs holds the results of the send calls  *)
(* to come (a send takes everything once it is used up).  wire is what the *)
(* connection carries; sentLog the frames of which a call wrote at least   *)
(* one byte.                                                               *)

WriteVariants == {"tcpsend", "swsend"}

\* results of the send calls of one sendFrame: -1, a short write of one byte,
\* or everything
SendOuts == SeqsUpTo({-1, 1}, MaxCuts)

\* the return value of one send of len bytes
SendCount(len, outs) == IF outs = <<>> THEN len ELSE Min(len, Head(outs))

RECURSIVE SendLoop(_, _, _)
\* while (total_sent < buffer.size()) { sent = send(.., size - total_sent, 0);
\*                                      if (sent <= 0) return; total_sent += sent; }
\* yields the number of bytes of buf that were written
SendLoop(buf, outs, total_sent) ==
    IF total_sent >= Len(buf) THEN total_sent
    ELSE LET sent == SendCount(Len(buf) - total_sent, outs)
         IN  IF sent <= 0 THEN total_sent
             ELSE SendLoop(buf, NextCuts(outs), total_sent + sent)

\* TCPSender::sendFrame: the bytes it puts on the connection
TcpSendFrame(f, outs) ==
    LET header == PackInt(f.frame_id) \o PackInt(f.frame_type)
                  \o PackInt(Len(ImEncode(f.frame)))
        n == SendCount(12, outs)
    IN  IF n # 12
        THEN [bytes |-> SubSeq(header, 1, Max(n, 0)), connected |-> TRUE]
        ELSE [bytes |-> header \o SubSeq(ImEncode(f.frame), 1,
                            SendLoop(ImEncode(f.frame), NextCuts(outs), 0)),
              connected |-> TRUE]

\* SwitchableSender::sendFrame (frames of type 0..2) and the raw depth send of
\* main (type 3), which checks neither send
SwitchSendFrame(f, outs, isConnected) ==
    LET header == << f.frame_type >> \o PackInt(Len(ImEncode(f.frame)))
        n == SendCount(5, outs)
        m == SendCount(Len(ImEncode(f.frame)), NextCuts(outs))
        payload == SubSeq(ImEncode(f.frame), 1, Max(m, 0))
    IN  IF ~isConnected
        THEN [bytes |-> <<>>, connected |-> FALSE]
        ELSE IF f.frame_type = 3
        THEN [bytes |-> SubSeq(header, 1, Max(n, 0)) \o payload,
              connected |-> TRUE]
        ELSE IF n # 5
        THEN [bytes |-> SubSeq(header, 1, Max(n, 0)), connected |-> FALSE]
        ELSE [bytes |-> header \o payload, connected |-> TRUE]

InitSend ==
    /\ variant \in WriteVariants
    /\ txArgs = NoTx
    /\ ret = NoRet
    /\ frames = EmptyMap
    /\ lastFrame = 0
    /\ InitClk
    /\ InitStream
    /\ InitViz
    /\ proc = NoProc
    /\ InitCtl
    /\ InitIdle

\* SwitchableSender::connectToReceiver: sockfd = socket(..), and
\* close(sockfd) when connect fails; connected is set on success only
ConnectToReceiver(s, connectOk) ==
    [s EXCEPT !.sockfd = IF connectOk THEN "open" ELSE "closed"]

\* SwitchableSender::reconnect: if (connected) close(sockfd), whatever
\* sockfd is by now, then connectToReceiver()
Reconnect(s, isConnected, connectOk) ==
    ConnectToReceiver(
        [s EXCEPT !.stale = IF isConnected /\ s.sockfd = "closed" THEN @ \cup {"close"}
                            ELSE @],
        connectOk)

\* the sender's main sends its next frame; switchable_sender's main goes
\* back to the command poll after a failed reconnect (sleep(1); continue)
FrameSend ==
    /\ Len(sentLog) < MaxFrames
    /\ ~(snd.op = "reconnect" /\ snd.sockfd = "closed")
    /\ \E ty \in {0, 3}, img \in Images, outs \in SendOuts :
         LET f == [frame_id |-> IF variant = "tcpsend" THEN Len(sentLog) ELSE 0,
                   frame_type |-> ty, frame |-> img]
             r == IF variant = "tcpsend" THEN TcpSendFrame(f, outs)
                  ELSE SwitchSendFrame(f, outs, connected)
         IN  /\ wire' = wire \o r.bytes
             /\ connected' = r.connected
             /\ sentLog' = IF r.bytes # <<>> THEN Append(sentLog, f) ELSE sentLog
             /\ snd' = [snd EXCEPT !.op = "send"]
    /\ UNCHANGED <<dgVars, clkVars, dispVars, peerUp, capVars, vizVars, proc, ctlVars,
                   peerClosed, gotLog, sawEof, readAfterEof>>

\* what recv(sender.sockfd, &cmd, 1, MSG_DONTWAIT) returns: 1 with a command
\* pending, 0 when the peer has closed, -1 when nothing is pending (EAGAIN)
\* and on an error of the connection
PollCount(pending) ==
    CASE pending = "command" -> 1
      [] pending = "closed"  -> 0
      [] OTHER               -> -1

\* switchable_sender, main: the command poll at the start of a loop round.
\* n > 0 sets the mode; n < 0 calls sender.reconnect(), which closes sockfd
\* if connected and then connects anew (connected is set on success only)
CommandPoll ==
    /\ variant = "swsend"
    /\ \E pending \in IF snd.sockfd = "closed" THEN {"error"}
                      ELSE IF peerClosed THEN {"closed"}
                      ELSE {"none", "command", "error"},
          connectOk \in BOOLEAN :
         LET n == PollCount(pending)
             polled == [snd EXCEPT !.stale = IF snd.sockfd = "closed" THEN @ \cup {"recv"}
                                             ELSE @]
         IN  IF n > 0
             THEN /\ snd' = [polled EXCEPT !.op = "mode", !.poll = pending]
                  /\ UNCHANGED <<wire, connected, sentLog>>
             ELSE IF n < 0
             THEN /\ snd' = [Reconnect(polled, connected, connectOk)
                               EXCEPT !.op = "reconnect", !.poll = pending]
                  /\ connected' = (connectOk \/ connected)
                  /\ wire' = <<>>
                  /\ sentLog' = <<>>
             ELSE /\ snd' = [polled EXCEPT !.op = "none", !.poll = pending]
                  /\ UNCHANGED <<wire, connected, sentLog>>
    /\ UNCHANGED <<dgVars, clkVars, dispVars, peerUp, capVars, vizVars, proc, ctlVars,
                   peerClosed, gotLog, sawEof, readAfterEof>>

NextSend == FrameSend \/ CommandPoll \/ StreamClose

SpecSend == InitSend /\ [][NextSend]_vars

----------------------------------------------------------------------------
(* The depth views: the top-down 2D map, the software point cloud viewer    *)
(* and the accumulating 3D map.  The float quantities of the code are kept  *)
(* as integers: angles in tenths of a radian in the viewer's state and in   *)
(* thousandths where a tangent is taken, lengths in millimetres, sines,     *)
(* cosines and tangents in thousandths, value_scale in thousandths.  A cast *)
(* to int truncates towards zero.                                           *)

VizVariants == {"vision", "rawmap", "tcpmap", "viz3d", "camrx"}

Abs(a) == IF a >= 0 THEN a ELSE -a

\* (int)(a / b) for b > 0: the quotient, truncated towards zero
Trunc(a, b) == IF a >= 0 THEN a \div b ELSE -((-a) \div b)

\* sin and cos of 0.0, 0.1 .. 1.6 radians, in thousandths
SinTable ==
    <<0, 100, 199, 296, 389, 479, 565, 644, 717, 783, 841, 891, 932, 964, 985,
      997, 1000>>

CosTable ==
    <<1000, 995, 980, 955, 921, 878, 825, 765, 697, 622, 540, 454, 362, 267, 170,
      71, -29>>

\* the yaw angles followed: up to 1.6 radians to either side
YawSteps == Len(SinTable) - 1

SinMilli(a) == IF a >= 0 THEN SinTable[a + 1] ELSE -SinTable[1 - a]
CosMilli(a) == CosTable[Abs(a) + 1]

\* tan of an angle of a thousandths of a radian (|a| below 0.6 rad), in
\* thousandths: a + a^3/3 + 2a^5/15
TanMilli(a) ==
    LET cube  == Trunc(Trunc(a * a, 1000) * a, 1000)
        fifth == Trunc(Trunc(cube * a, 1000) * a, 1000)
    IN  a + Trunc(cube, 3) + Trunc(2 * fifth, 15)

\* std::max(-1.5f, std::min(1.5f, pitch)), in tenths of a radian
PitchLimit == 15

\* std::max(50.0f, std::min(500.0f, z))
ZoomMin == 50
ZoomMax == 500

\* rotate without the clamp of pitch
RotateFree(v, dy, dp) == [v EXCEPT !.yaw = v.yaw + dy, !.pitch = v.pitch + dp]

\* PointCloudViewer::rotate
Rotate(v, dy, dp) ==
    [v EXCEPT !.yaw = v.yaw + dy,
              !.pitch = Max(-PitchLimit, Min(PitchLimit, v.pitch + dp))]

\* PointCloudViewer::setZoom
SetZoom(v, z) == [v EXCEPT !.zoom = Max(ZoomMin, Min(ZoomMax, z))]

\* an argument far beyond every limit
Huge == 1000000

\* arguments of rotate: turns of several arrow-key steps of 0.1, and deltas
\* far beyond the limits
YawDeltas == {-YawSteps, YawSteps}
PitchDeltas == {-Huge, -10, 10, Huge}

\* arguments of setZoom: getZoom() plus or minus several key steps of 25, and
\* values far outside the limits
ZoomArgs(v) == {v.zoom + 450, -Huge, Huge}

\* the depth frames given to the views: GridSize x GridSize samples, all zero
\* but the one at (row, col)
GridSize == 4
Cells == 0..(GridSize - 1)

\* the positions a loop "for (y = 0; y < height; y += step)" over both axes visits
Visited(step) == {c \in Cells \X Cells : c[1] % step = 0 /\ c[2] % step = 0}

\* depth_data[y * depth_width + x] of the frame of scene sc (a scene with a
\* field bg holds that value at every other position; a scene with a field
\* held is a buffer of that many samples, and a read beyond it finds junk)
RawAt(sc, y, x) ==
    IF "held" \in DOMAIN sc /\ y * GridSize + x >= sc.held THEN sc.junk
    ELSE IF y = sc.row /\ x = sc.col THEN sc.raw
    ELSE IF "bg" \in DOMAIN sc THEN sc.bg ELSE 0

\* uint16_t depth values drawn for the frames of the 2D maps, of the point
\* cloud viewer and of the 3D map
MapRaws == {0, 199, 200, 2000, 4000, 4001, 65535}
CloudRaws == {0, 2500, 5000, 5001}
Map3DRaws == {0, 299, 300, 2000, 4001}

\* getValueScale() of the frames, in thousandths (0.1, 1.0, 2.5)
ValueScales == {100, 1000, 2500}

Scenes(raws, scales) ==
    {[row |-> r, col |-> c, raw |-> v, scale |-> k] :
        r \in Cells, c \in Cells, v \in raws, k \in scales}

\* ranges of Map2D::update in thousandths of a millimetre (0.2f and max_range
\* = 4.0f metres), and its field of view of 60 degrees in thousandths of a radian
MinRange == 200000
MaxRange == 4000000
FovMilli == 1047

\* the depth test without its near limit
MapAdmitNoNear(depth_val, scale) ==
    /\ depth_val # 0
    /\ ~(depth_val * scale > MaxRange)

\* the depth test with max_range itself rejected
MapAdmitStrict(depth_val, scale) ==
    /\ depth_val # 0
    /\ ~(depth_val * scale >= MaxRange \/ depth_val * scale < MinRange)

\* Map2D::update, the tests a sample passes before it is projected:
\* if (depth_val == 0) continue;
\* if (depth_m > max_range || depth_m < 0.2f) continue;
MapAdmit(depth_val, scale) ==
    /\ depth_val # 0
    /\ ~(depth_val * scale > MaxRange \/ depth_val * scale < MinRange)

\* Map2D::update of submarine_receiver_raw / submarine_sender (map of width x
\* height = 640 x 480) and of submarine_sender_tcp (the same with 100 pixels
\* per metre): the set of samples that passed the depth tests, each with the
\* pixel computed for it and whether the pixel was inside the map
Map2DUpdate(v, sc) ==
    { LET depth_val == RawAt(sc, c[1], c[2])
          depth_um  == depth_val * sc.scale
          depth_mm  == Trunc(depth_um, 1000)
          angle     == Trunc((2 * c[2] - GridSize) * FovMilli, 2 * GridSize)
          x_pos     == Trunc(depth_mm * TanMilli(angle), 1000)
          map_x     == IF v = "tcpmap" THEN 320 + Trunc(x_pos, 10)
                       ELSE 320 + Trunc(x_pos * 640, 8000)
          map_y     == IF v = "tcpmap" THEN Trunc(depth_mm, 10)
                       ELSE Trunc(depth_mm * 480, 4000)
      IN  [y |-> c[1], x |-> c[2], raw |-> depth_val, depth |-> depth_mm,
           px |-> map_x, py |-> map_y,
           written |-> (map_x >= 0 /\ map_x < 640 /\ map_y >= 0 /\ map_y < 480)] :
      c \in {d \in Visited(4) : MapAdmit(RawAt(sc, d[1], d[2]), sc.scale)} }

\* an update that draws over what map_image holds
KeepCanvas(canvas) == canvas

\* Map2D::update: std::fill(map_image.begin(), map_image.end(), 255), or
\* map_image.setTo(white): no sample of an earlier grid stays drawn
FillWhite(canvas) == {}

\* Map2D::update on a map_image that holds canvas
MapCanvas(canvas, v, sc) == FillWhite(canvas) \cup Map2DUpdate(v, sc)

\* the depth ceiling of project (raw units), its move back of 2.0 and its
\* near limit of 0.1 (millimetres)
DepthCeiling == 5000
MoveBack == 2000
NearLimit == 100

\* the depth test of project without its test for zero
CloudAdmitNoZero(depth_val) == ~(depth_val > DepthCeiling)

\* PointCloudViewer::project: if (depth_val == 0 || depth_val > 5000) continue;
CloudAdmit(depth_val) == ~(depth_val = 0 \/ depth_val > DepthCeiling)

\* a test that only keeps the divisor from being zero
NotZero(rz) == rz # 0

\* PointCloudViewer::project: if (rz <= 0.1f) continue;
InFront(rz) == ~(rz <= NearLimit)

\* the rotated and moved-back point of PointCloudViewer::project for the
\* sample depth_val at (y, x), in millimetres
Rotated(v, y, x, depth_val) ==
    LET depth  == depth_val
        fx     == Trunc(depth * TanMilli(Trunc((2 * x - GridSize) * 1000, 2 * GridSize)), 1000)
        fy     == -depth
        fz     == Trunc(depth * TanMilli(Trunc((2 * y - GridSize) * 1000, 2 * GridSize)), 1000)
        cyaw   == CosMilli(v.yaw)
        syaw   == SinMilli(v.yaw)
        cpitch == CosMilli(v.pitch)
        spitch == SinMilli(v.pitch)
        fxs    == Trunc(fx * syaw, 1000)
        fyc    == Trunc(fy * cyaw, 1000)
    IN  [rx |-> Trunc(fx * cyaw - fy * syaw, 1000),
         ry |-> Trunc(fxs * cpitch + fyc * cpitch - fz * spitch, 1000),
         rz |-> Trunc(fxs * spitch + fyc * spitch + fz * cpitch, 1000) + MoveBack]

\* PointCloudViewer::project on a canvas of width x height = 1280 x 360: the
\* set of samples for which px and py were computed, each with its rz (as
\* depth), the pixel, and whether the pixel was inside the canvas and written
Project(v, sc) ==
    { LET depth_val == RawAt(sc, c[1], c[2])
          r  == Rotated(v, c[1], c[2], depth_val)
          px == Trunc(640 * r.rz + r.rx * v.zoom, r.rz)
          py == Trunc(180 * r.rz + r.ry * v.zoom, r.rz)
      IN  [y |-> c[1], x |-> c[2], raw |-> depth_val, depth |-> r.rz,
           px |-> px, py |-> py,
           written |-> (px >= 0 /\ px < 1280 /\ py >= 0 /\ py < 360)] :
      c \in {d \in Visited(3) :
                LET depth_val == RawAt(sc, d[1], d[2])
                IN  /\ CloudAdmit(depth_val)
                    /\ InFront(Rotated(v, d[1], d[2], depth_val).rz)} }

\* the near range of Map3D::update (0.3f metres), in thousandths of a
\* millimetre, and its skipStep
MinRange3D == 300000
SkipStep == 2

\* Map3D::update: the points newPoints receives (fx = fy = 525, cx = 320,
\* cy = 240), in millimetres
NewPoints(sc) ==
    { LET depth_val == RawAt(sc, c[1], c[2])
          depth_mm  == Trunc(depth_val * sc.scale, 1000)
      IN  [y |-> c[1], x |-> c[2], raw |-> depth_val, depth |-> depth_mm,
           px |-> Trunc((c[2] - 320) * depth_mm, 525),
           py |-> Trunc((c[1] - 240) * depth_mm, 525),
           written |-> TRUE] :
      c \in {d \in Visited(SkipStep) :
                LET depth_val == RawAt(sc, d[1], d[2])
                IN  /\ depth_val # 0
                    /\ ~(depth_val * sc.scale > MaxRange
                         \/ depth_val * sc.scale < MinRange3D)} }

\* maxPoints of Map3D, scaled down from 100000
MaxCloud == 2

RECURSIVE PointsFrom(_, _)
\* the points pts in the order of the push_back calls: row by row, from
\* sample i on
PointsFrom(pts, i) ==
    IF pts = {} THEN <<>>
    ELSE LET here == {p \in pts : p.y = i \div GridSize /\ p.x = i % GridSize}
         IN  (IF here = {} THEN <<>> ELSE <<CHOOSE p \in here : TRUE>>)
                 \o PointsFrom(pts \ here, i + 1)

\* Map3D::update without a colour frame: the colour of a point from its depth
Color3D(p) ==
    LET far == 4000 - p.depth
    IN  <<Trunc(far * 255, 4000), Trunc(far * 128, 4000), Trunc(p.depth * 255, 4000)>>

ColorsOf(pts) == [i \in 1..Len(pts) |-> Color3D(pts[i])]

\* an erase of the newest entries in place of the oldest
EvictNewest(q) == IF Len(q) > MaxCloud THEN SubSeq(q, 1, MaxCloud) ELSE q

\* Map3D::update: if (size > maxPoints) erase(begin, begin + excess)
Evict(q) ==
    IF Len(q) > MaxCloud THEN SubSeq(q, Len(q) - MaxCloud + 1, Len(q)) ELSE q

\* the elements of a sequence
Elems(q) == {q[i] : i \in 1..Len(q)}

\* Map3D::update
CloudUpdate(c, sc) ==
    LET newPoints == PointsFrom(NewPoints(sc), 0)
        grow == c.accumulate /\ newPoints # <<>>
        pts  == IF grow THEN Evict(c.points \o newPoints) ELSE c.points
        cols == IF grow THEN Evict(c.colors \o ColorsOf(newPoints)) ELSE c.colors
    IN  [c EXCEPT !.points = pts,
                  !.colors = cols,
                  !.shown = IF pts # <<>> THEN pts
                            ELSE IF newPoints # <<>> THEN newPoints ELSE c.shown,
                  !.op = "update"]

\* the depth frames of the 3D map: one sample of the first row among zeros,
\* or the first sample among samples of 300
Scenes3D ==
    {sc \in Scenes(Map3DRaws, {1000}) : sc.row = 0 /\ sc.col <= SkipStep}
    \cup {[row |-> 0, col |-> 0, raw |-> v, scale |-> 1000, bg |-> 300] :
             v \in Map3DRaws}

InitVz ==
    /\ variant \in VizVariants
    /\ txArgs = NoTx
    /\ ret = NoRet
    /\ frames = EmptyMap
    /\ lastFrame = 0
    /\ InitClk
    /\ InitStream
    /\ InitViz
    /\ proc = NoProc
    /\ InitCtl
    /\ InitIdle

\* a key of the viewer: viewer3D.rotate(dy, dp)
ViewRotate ==
    /\ variant = "vision"
    /\ \E dy \in YawDeltas, dp \in PitchDeltas :
         /\ Abs(view.yaw + dy) <= YawSteps
         /\ view' = Rotate(view, dy, dp)
    /\ UNCHANGED <<dgVars, clkVars, dispVars, stVars, conVars, capVars, proc, ctlVars, outside,
                   scene, plots, cloud, canvas0>>

\* a key of the viewer: viewer3D.setZoom(z)
ViewSetZoom ==
    /\ variant = "vision"
    /\ \E z \in ZoomArgs(view) : view' = SetZoom(view, z)
    /\ UNCHANGED <<dgVars, clkVars, dispVars, stVars, conVars, capVars, proc, ctlVars, outside,
                   scene, plots, cloud, canvas0>>

\* the display of a decoded depth frame: viewer3D.project(decodedDepth)
CloudProject ==
    /\ variant = "vision"
    /\ \E sc \in Scenes(CloudRaws, {1000}) :
         /\ scene' = sc
         /\ plots' = Project(view, sc)
    /\ UNCHANGED <<dgVars, clkVars, dispVars, stVars, conVars, capVars, proc, ctlVars, outside,
                   view, cloud, canvas0>>

\* the depth frames of the 2D map: one sample on the diagonal among zeros
MapScenes == {sc \in Scenes(MapRaws, ValueScales) : sc.row = sc.col}

\* mapper.update(depthFrame, value_scale)
MapUpdate ==
    /\ variant \in {"rawmap", "tcpmap"}
    /\ \E sc \in MapScenes :
         /\ scene' = sc
         /\ plots' = MapCanvas(plots, variant, sc)
    /\ canvas0' = plots
    /\ UNCHANGED <<dgVars, clkVars, dispVars, stVars, conVars, capVars, proc, ctlVars, outside,
                   view, cloud>>

\* the depth frames camera_receiver obtains: the header declares GridSize x
\* GridSize samples, the payload holds data_size / 2 of them, and a read
\* beyond the payload finds 0 or another value
CameraScenes ==
    {[row |-> r, col |-> r, raw |-> v, scale |-> 1000, held |-> h, junk |-> j] :
        r \in Cells, v \in {0, 2000},
        h \in {0, 1, GridSize * GridSize}, j \in {0, 4000}}

\* depthToVisual: depth_data[y * width + x] is read for every y < height and
\* x < width of the header; the reads at or beyond data_size / 2
ReadOutside(sc) == {c \in Cells \X Cells : c[1] * GridSize + c[2] >= sc.held}

\* camera_receiver, main: a depth frame is received; depthToVisual, then
\* mapper.update(depth_data, header.width, header.height, header.value_scale)
CameraDepth ==
    /\ variant = "camrx"
    /\ \E sc \in CameraScenes :
         /\ scene' = sc
         /\ outside' = ReadOutside(sc)
         /\ plots' = MapCanvas(plots, variant, sc)
    /\ canvas0' = plots
    /\ UNCHANGED <<dgVars, clkVars, dispVars, stVars, conVars, capVars, proc, ctlVars, view, cloud>>

\* map3d.update(lastDepthFrame, lastColorFrame)
Map3DUpdate ==
    /\ variant = "viz3d"
    /\ \E sc \in Scenes3D :
         /\ scene' = sc
         /\ cloud' = CloudUpdate(cloud, sc)
    /\ plots' = Elems(cloud'.points) \cup Elems(cloud'.shown)
    /\ UNCHANGED <<dgVars, clkVars, dispVars, stVars, conVars, capVars, proc, ctlVars, outside,
                   view, canvas0>>

\* key A: Map3D::toggleAccumulation
ToggleAccumulation ==
    /\ variant = "viz3d"
    /\ cloud' = [cloud EXCEPT !.accumulate = ~cloud.accumulate,
                              !.points = IF cloud.accumulate THEN <<>> ELSE @,
                              !.colors = IF cloud.accumulate THEN <<>> ELSE @,
                              !.op = "toggle"]
    /\ plots' = Elems(cloud'.points) \cup Elems(cloud'.shown)
    /\ UNCHANGED <<dgVars, clkVars, dispVars, stVars, conVars, capVars, proc, ctlVars, outside,
                   view, scene, canvas0>>

\* key C: Map3D::clear
CloudClear ==
    /\ variant = "viz3d"
    /\ cloud' = [cloud EXCEPT !.points = <<>>, !.colors = <<>>, !.op = "clear"]
    /\ plots' = Elems(cloud'.points) \cup Elems(cloud'.shown)
    /\ UNCHANGED <<dgVars, clkVars, dispVars, stVars, conVars, capVars, proc, ctlVars, outside,
                   view, scene, canvas0>>

NextViz ==
    \/ ViewRotate \/ ViewSetZoom \/ CloudProject \/ MapUpdate
    \/ Map3DUpdate \/ ToggleAccumulation \/ CloudClear \/ CameraDepth

SpecViz == InitVz /\ [][NextViz]_vars

----------------------------------------------------------------------------
(* The processes from start to exit: the usage check of main, the socket   *)
(* setup, the receive loop with its display refresh and exit key, and the  *)
(* status main ends with.                                                  *)

\* submarine_receiver, submarine_receiver_tcp, udp_switchable_receiver,
\* submarine_sender_tcp and camera_receiver
ProcessRoles == {"mux", "tcp", "udpsw", "tcpsend", "camrx"}

\* the receivers among them
ReceiverRoles == ProcessRoles \ {"tcpsend"}

\* the receivers of a stream connection
StreamRoles == {"tcp", "camrx"}

\* the setup calls of each main, in the order they are made
SetupCalls(v) ==
    CASE v = "mux"     -> <<"socket", "bind">>
      [] v = "tcp"     -> <<"socket", "bind", "listen", "accept">>
      [] v = "udpsw"   -> <<"socket", "bind", "socket">>
      [] v = "tcpsend" -> <<"socket", "connect">>
      [] v = "camrx"   -> <<"socket", "bind", "listen", "accept">>

\* the status the parent of a process obtains for main's return value
ExitStatus(r) == r % 256

\* the status of a process ended by std::terminate (SIGABRT)
Aborted == 134

\* the setup calls whose result main does not look at
Unchecked(v, call) == v = "udpsw" \/ (v = "tcp" /\ call = "listen")

\* the status each main ends with when a setup call it checks fails: return 1
\* or an exception caught with return 1, return -1 in submarine_sender_tcp,
\* and an exception nothing catches for the accept of submarine_receiver_tcp
OnFailure(v, call) ==
    CASE v = "tcp" /\ call = "accept" -> Aborted
      [] v = "tcpsend"                 -> ExitStatus(-1)
      [] OTHER                         -> ExitStatus(1)

\* setsockopt(..., SO_RCVTIMEO, ...) of each receiver
RcvTimeo(v) == v \in {"tcp", "udpsw"}

\* main ends with status st
Exit(st) == [proc EXCEPT !.pc = "exited", !.status = st]

InitProcess ==
    /\ variant \in ProcessRoles
    /\ txArgs = NoTx
    /\ ret = NoRet
    /\ frames = EmptyMap
    /\ lastFrame = 0
    /\ InitClk
    /\ InitStream
    /\ InitIdle
    /\ InitViz
    /\ proc = [NoProc EXCEPT !.pc = "start"]
    /\ InitCtl

\* main: the test of argc
UsageCheck ==
    /\ proc.pc = "start"
    /\ \E argsOk \in BOOLEAN :
         proc' = IF argsOk THEN [proc EXCEPT !.pc = "setup", !.step = 1]
                 ELSE [Exit(ExitStatus(1)) EXCEPT !.usage = TRUE]
    /\ UNCHANGED <<dgVars, clkVars, dispVars, stVars, conVars, capVars, vizVars, ctlVars>>

\* the process after setup call number proc.step returned
AfterSetup(failed) ==
    LET call == SetupCalls(variant)[proc.step]
        last == proc.step = Len(SetupCalls(variant))
        went == [proc EXCEPT !.failed = IF failed /\ @ = "none" THEN call ELSE @,
                             !.step = @ + 1,
                             !.pc = IF ~last THEN "setup"
                                    ELSE IF variant \in ReceiverRoles THEN "recv"
                                    ELSE "send",
                             !.rcvtimeo = last /\ RcvTimeo(variant)]
    IN  IF failed /\ ~Unchecked(variant, call)
        THEN [Exit(OnFailure(variant, call)) EXCEPT !.failed = call]
        ELSE went

\* main: socket, bind, listen, accept or connect returns
SetupCall ==
    /\ proc.pc = "setup"
    /\ \E failed \in BOOLEAN : proc' = AfterSetup(failed)
    /\ UNCHANGED <<dgVars, clkVars, dispVars, stVars, conVars, capVars, vizVars, ctlVars>>

\* the receive call returns a frame (frameCount++), and the loop goes on to
\* the display
RecvData ==
    /\ proc.pc = "recv"
    /\ ~proc.peerGone
    /\ proc.frameCount < MaxLoops
    /\ proc' = [proc EXCEPT !.pc = "refresh", !.frameCount = @ + 1]
    /\ UNCHANGED <<dgVars, clkVars, dispVars, stVars, conVars, capVars, vizVars, ctlVars>>

\* SO_RCVTIMEO expires: the receive call returns without a frame
RecvExpires ==
    /\ proc.pc = "recv"
    /\ proc.rcvtimeo
    /\ proc' = [proc EXCEPT !.pc = "refresh"]
    /\ UNCHANGED <<dgVars, clkVars, dispVars, stVars, conVars, capVars, vizVars, ctlVars>>

\* the sender closes its connection
PeerCloses ==
    /\ variant \in StreamRoles
    /\ proc.pc \in {"recv", "refresh"}
    /\ ~proc.peerGone
    /\ proc' = [proc EXCEPT !.peerGone = TRUE]
    /\ UNCHANGED <<dgVars, clkVars, dispVars, stVars, conVars, capVars, vizVars, ctlVars>>

\* recv returns 0 on the closed connection: camera_receiver leaves its loop
\* ("Connection lost") and main returns 0, submarine_receiver_tcp goes on
RecvClosed ==
    /\ proc.pc = "recv"
    /\ proc.peerGone
    /\ proc' = IF variant = "camrx" THEN Exit(ExitStatus(0))
               ELSE [proc EXCEPT !.pc = "refresh"]
    /\ UNCHANGED <<dgVars, clkVars, dispVars, stVars, conVars, capVars, vizVars, ctlVars>>

\* the user presses the exit key
PressEsc ==
    /\ proc.pc \in {"recv", "refresh"}
    /\ ~proc.esc
    /\ proc' = [proc EXCEPT !.esc = TRUE]
    /\ UNCHANGED <<dgVars, clkVars, dispVars, stVars, conVars, capVars, vizVars, ctlVars>>

\* imshow and cv::waitKey(1): ESC ends the loop and main returns 0
Refresh ==
    /\ proc.pc = "refresh"
    /\ proc' = IF proc.esc THEN Exit(ExitStatus(0)) ELSE [proc EXCEPT !.pc = "recv"]
    /\ UNCHANGED <<dgVars, clkVars, dispVars, stVars, conVars, capVars, vizVars, ctlVars>>

\* submarine_sender_tcp, main: one round of the while(true) loop
SendRound ==
    /\ proc.pc = "send"
    /\ proc.frameCount < MaxLoops
    /\ proc' = [proc EXCEPT !.frameCount = @ + 1]
    /\ UNCHANGED <<dgVars, clkVars, dispVars, stVars, conVars, capVars, vizVars, ctlVars>>

NextProcess ==
    \/ UsageCheck \/ SetupCall \/ RecvData \/ RecvExpires \/ PeerCloses
    \/ RecvClosed \/ PressEsc \/ Refresh \/ SendRound

SpecProcess == InitProcess /\ [][NextProcess]_vars

----------------------------------------------------------------------------
(* Claims about the datagram receivers (checked under SpecDatagram).       *)

\* C1: in every datagram receiver a datagram that holds fewer bytes after the
\* header than its header declares is rejected, and no byte beyond the
\* received length is handed on as payload.
C1_DeclaredSizeChecked ==
    (ret.parsed /\ ret.n - HeaderSize(variant) < ret.data_size)
        => (~ret.ok /\ ret.over = 0)

\* C8: a frame whose frame_type is outside the known enumeration 0..3 never
\* updates the FrameBuffer of a multiplexed receiver, under any key.
C8_UnknownTypeNeverCached ==
    (variant \in {"mux", "udpsw"}) => (DOMAIN frames \subseteq 0..3)

\* C9: a frame whose declared payload_size is <= 0 or above the ceiling is
\* discarded before its payload reaches the codec or the cache.
C9_BadSizeDiscarded ==
    (ret.parsed /\ (ret.data_size <= 0 \/ ret.data_size > 2000000))
        => (~ret.ok /\ ~ret.codec)

C13_MalformedDropped ==
    [][ LET r == ret'
            malformed ==
                \/ r.n < HeaderSize(variant)
                \/ r.parsed /\ variant \in Framed12 /\ r.frame_type \notin 0..3
                \/ r.parsed /\ (r.data_size <= 0 \/ r.data_size > 2000000)
                \/ r.parsed /\ r.data_size > r.n - HeaderSize(variant)
                \/ r.codec /\ r.img = 0
        IN  /\ malformed => /\ ~r.ok \/ r.img = 0
                         /\ frames' = frames
                         /\ lastFrame' = lastFrame
            /\ txArgs'.sent => r.ok ]_vars

\* C14: a datagram read whose result is below the header size of the receiver
\* (12 or 8 bytes), a timeout or error result of -1 included, is discarded by
\* the iteration: no header field is read, the call fails, and the FrameBuffer
\* and the latest-frame slot with its time keep their values.
C14_ShortReadDiscarded ==
    [][ ret'.n < HeaderSize(variant) =>
            /\ ~ret'.parsed
            /\ ~ret'.ok
            /\ ret'.data = <<>>
            /\ UNCHANGED <<frames, lastFrame, lastFrameTime>> ]_vars

\* C14 witness: a datagram one byte short of the header arrived at a receiver
\* that holds a frame.
C14_Witness ==
    /\ ret.n = HeaderSize(variant) - 1
    /\ ~ret.ok
    /\ frames # EmptyMap \/ lastFrame # 0

\* C28: the receivers do not use frame_id to accept, reject or order frames:
\* a frame the receive call returned replaces the cached entry of its type,
\* whatever the frame_id of the frame received before it.
C28_FrameIdNotConsulted ==
    [][ (ret'.ok /\ ret'.img # 0) =>
            CASE variant = "mux"   -> frames'[ret'.frame_type] = ret'.img
              [] variant = "udpsw" -> frames'[ret'.frame_type].frame = ret'.img
              [] OTHER             -> lastFrame' = ret'.img ]_vars

\* C28 witness: udp_switchable_receiver holds, under its type, a frame whose
\* frame_id is lower than the one of the frame it replaced.
C28_Witness ==
    /\ variant = "udpsw"
    /\ lowerId
    /\ ret.ok
    /\ frames[ret.frame_type].frame = ret.img
    /\ ret.frame_id < 70000

----------------------------------------------------------------------------
(* Claims about the caches (checked under SpecCache).                      *)

\* C2: in every receiver, a value the display obtains from the cache in a loop
\* iteration was stored less than TTL milliseconds before the read; an entry
\* whose age has reached TTL reads as absent.
C2_NoStaleRead ==
    [][ (now' = now) =>
            \A t \in DOMAIN shown' :
                shown'[t] # 0 => now - putTime'[t] < Ttl(variant) ]_vars

\* C12: at every display refresh, a pane whose stream has no cached frame, or
\* whose cached frame was stored TTL milliseconds ago or earlier, shows the
\* NO SIGNAL text (0): it is neither left without content nor filled with the
\* last frame that was stored.
C12_NoSignalShown ==
    [][ (now' = now) =>
            \A t \in DOMAIN shown' :
                (t \notin DOMAIN putTime' \/ now - putTime'[t] >= Ttl(variant))
                    => shown'[t] = 0 ]_vars

\* C3: in the timed FrameBuffer an update replaces the entry of its frame type
\* whatever was there, stamps it with the current time and leaves the entries
\* of the other types alone, and a get of that type straight after it returns
\* the value just put.
C3_PutReplacesAndStamps ==
    [][ (variant \in TimedVariants /\ now' = now /\ ret'.ok) =>
            LET ty == ret'.frame_type
            IN  /\ ty \in DOMAIN frames'
                /\ frames'[ty] = [frame |-> ret'.img, timestamp |-> now]
                /\ DOMAIN frames' = DOMAIN frames \cup {ty}
                /\ \A k \in DOMAIN frames \ {ty} : frames'[k] = frames[k]
                /\ TimedGet(frames', ty, now) = ret'.img
                /\ (ty \in DOMAIN shown' => shown'[ty] = ret'.img) ]_vars

\* C3 witness: in the TCP receiver an entry of type 0 that was stored before
\* has just been replaced (its stamp is the current time, later than the
\* stamp of the entry of type 3) and is what the display shows.
C3_Witness ==
    /\ variant = "tcp"
    /\ DOMAIN frames = {0, 3}
    /\ frames[3].timestamp = 999
    /\ frames[0].timestamp = 1998
    /\ now = 1998
    /\ frames[0].frame = 2
    /\ shown[0] = 2
    /\ shown[3] = frames[3].frame

\* C24: a get leaves the timed cache as it is: an entry that has reached the
\* age limit is reported absent but stays stored with its timestamp, the
\* entries of the other types are untouched, and only a put of its type makes
\* the type readable again.
C24_GetLeavesCache ==
    [][ (variant \in TimedVariants /\ now' = now) =>
            \A k \in DOMAIN frames :
                LET putK == ret'.ok /\ ret'.frame_type = k
                    old  == ~(now - frames[k].timestamp < 2000)
                IN  /\ k \in DOMAIN frames'
                    /\ ~putK => frames'[k] = frames[k]
                    /\ (old /\ ~putK /\ k \in DOMAIN shown') => shown'[k] = 0
                    /\ (old /\ putK /\ k \in DOMAIN shown') => shown'[k] = ret'.img
        ]_vars

\* C24 witness: the display read the entry of type 0 when it had reached the
\* age limit: the pane shows nothing and the entry is still stored.
C24_Witness ==
    /\ variant \in TimedVariants
    /\ 0 \in DOMAIN frames
    /\ now - frames[0].timestamp >= 2000
    /\ shown[0] = 0

----------------------------------------------------------------------------
(* Claims about the stream receivers (checked under SpecStream).           *)

RECURSIVE StreamOf(_, _)
\* the bytes of a sequence of frames as the sender of deployment v writes them
StreamOf(v, log) ==
    IF log = <<>> THEN <<>>
    ELSE StreamPacket(v, Head(log)) \o StreamOf(v, Tail(log))

\* C4: however the bytes of the sent frames are split into short reads, the
\* frames receiveFrame has returned are the first frames sent, bit-identical
\* and in order, and the bytes left unread are exactly the frames after them
\* (each call read a full header and exactly payload_size bytes).
C4_FramesReassembled ==
    /\ Len(gotLog) <= Len(sentLog)
    /\ gotLog = SubSeq(sentLog, 1, Len(gotLog))
    /\ wire = StreamOf(variant, SubSeq(sentLog, Len(gotLog) + 1, Len(sentLog)))

\* C5: once a recv on a stream connection has returned 0 (the peer closed),
\* the receiver makes no further recv on that connection.
C5_NoReadAfterClose == ~readAfterEof

\* C29: every receiveFrame call of a stream receiver starts reading at a
\* frame boundary: whatever the calls before it returned, the bytes left
\* unread on the connection are whole frames of the sender, so that no
\* payload byte is parsed as a header.
C29_ReadsStartAtFrameBoundary ==
    \E k \in 0..Len(sentLog) :
        wire = StreamOf(variant, SubSeq(sentLog, k + 1, Len(sentLog)))

----------------------------------------------------------------------------
(* Claims about the stream senders (checked under SpecConnect).            *)

RECURSIVE Recovers(_, _, _)
\* the sender in state s, run for at most k steps while the receiver listens,
\* gets to send a frame on an established connection
Recovers(v, s, k) ==
    \/ s.link = "established" /\ s.op = "sent"
    \/ k > 0 /\ Recovers(v, SenderStep(v, s, TRUE), k - 1)

\* C6: after a disconnect, if the receiver is reachable and stays so, the
\* sender goes on attempting to connect until a connection is established
\* again and sends frames on it.  (The sender is deterministic: it recovers
\* if and only if it does so within the number of its states.)
C6_ReconnectsAfterLoss ==
    (snd.link = "broken" /\ peerUp) => Recovers(variant, snd, RecoverSteps)

----------------------------------------------------------------------------
(* Claims about the shared frames (checked under SpecCapture).             *)

\* C7: a read of the shared latest-frame slot by the main loop never overlaps
\* the capture callback's write of that slot (every access is made under
\* frameMutex).
C7_NoOverlappingAccess ==
    ~(cbPc = "wrDepth" /\ mainPc \in {"testDepth", "useDepth", "rdDepth"})

\* C15: every snapshot the main loop takes of frameMap obtains, for each frame
\* type, the frame the callback stored last before the snapshot, whole, and no
\* snapshot obtains a frame captured before the one the snapshot before it
\* obtained: frames may be skipped, they are never delivered out of order.
C15_SnapshotLatestInOrder ==
    [][ (mainPc = "rdMap" /\ mainPc' = "testDepth") =>
            \A ty \in DOMAIN snap' :
                /\ snap'[ty] # Torn
                /\ snap'[ty] = PlainGet(frameMap, ty)
                /\ cbFrame.type = ty /\ cbPc = "idle" => snap'[ty] = cbFrame.id
                /\ snap'[ty] >= snap[ty] ]_vars

\* C15 witness: a snapshot obtained the third capture as the colour frame and
\* the second as the depth frame; the first capture was skipped or replaced.
C15_Witness ==
    /\ mainPc = "testDepth"
    /\ snap = [COLOR |-> 3, DEPTH |-> 2]

----------------------------------------------------------------------------
(* Claims about the frames a sender writes (checked under SpecSend).       *)

\* C11: what a sender has put on a connection is, frame after frame, the
\* complete header and then the complete payload; only the frame written
\* last may be cut short (a short or failed write is never followed by the
\* bytes of a further frame).
C11_NoFrameAfterTruncated ==
    \/ sentLog = <<>> /\ wire = <<>>
    \/ /\ sentLog # <<>>
       /\ LET last == StreamPacket(variant, sentLog[Len(sentLog)])
              before == StreamOf(variant, SubSeq(sentLog, 1, Len(sentLog) - 1))
          IN  \E k \in 0..Len(last) : wire = before \o SubSeq(last, 1, k)

\* C30: the switchable TCP sender starts a reconnect only after the
\* connection was lost (the peer closed it, or recv failed with an error of
\* the connection): a command poll that finds no command pending starts no
\* reconnect and does not close the socket.
C30_ReconnectOnlyAfterLoss ==
    snd.op = "reconnect" => snd.poll \in {"closed", "error"}

----------------------------------------------------------------------------
(* Claims about the depth views (checked under SpecViz).                   *)

\* C16: after every rotate and every setZoom, whatever the arguments, pitch
\* lies in [-1.5, 1.5] (tenths of a radian: -15..15) and zoom in [50, 500].
C16_ViewClamped ==
    /\ view.pitch >= -15 /\ view.pitch <= 15
    /\ view.zoom >= 50 /\ view.zoom <= 500

\* C16 witness: the viewer was turned and pitch and zoom stand at their upper
\* limits, where a delta or a value far beyond them has left them.
C16_Witness ==
    /\ view.yaw # 0
    /\ view.pitch = 15
    /\ view.zoom = 500

\* C17: no sample whose raw depth value is 0 is among the samples a 2D map,
\* the point cloud viewer or the 3D map has projected or accumulated.
C17_ZeroNeverProjected == \A p \in plots : p.raw # 0

\* C17 witness: the viewer projected a frame in which one sample is not zero
\* and the other sampled positions hold zero, and plotted the one.
C17_Witness ==
    /\ variant = "vision"
    /\ scene.raw # 0
    /\ Cardinality(plots) = 1

\* C18: no sample whose depth_m = raw * value_scale / 1000 is below 0.2 or above
\* 4.0 metres (200000 and 4000000 thousandths of a millimetre) is among the
\* samples a 2D map has projected.
C18_OutOfRangeNeverPlotted ==
    variant \in {"rawmap", "tcpmap"} =>
        \A p \in plots :
            p.raw * scene.scale >= 200000 /\ p.raw * scene.scale <= 4000000

\* C18 witness: a 2D map was given a frame whose sample at the sampled position
\* (0, 0) is 199 at scale 1.0, just below the near range, and projected nothing.
C18_Witness ==
    /\ variant \in {"rawmap", "tcpmap"}
    /\ scene = [row |-> 0, col |-> 0, raw |-> 199, scale |-> 1000]
    /\ plots = {}

\* C19 as stated: every non-zero sample of the frame whose depth_m lies in
\* [0.2, 4.0] is among the samples the 2D map has projected, whatever its
\* position in the grid.
C19_EveryPositionAdmitted ==
    ( /\ variant \in {"rawmap", "tcpmap"}
      /\ scene.raw # 0
      /\ scene.raw * scene.scale >= 200000
      /\ scene.raw * scene.scale <= 4000000 )
        => \E p \in plots : p.y = scene.row /\ p.x = scene.col

\* C19 amended: every non-zero sample whose depth_m lies in [0.2, 4.0] and whose
\* row and column are multiples of 4, the positions the map samples, is among
\* the samples the 2D map has projected, with its raw value.
C19_SampledPositionsAdmitted ==
    ( /\ variant \in {"rawmap", "tcpmap"}
      /\ scene.raw # 0
      /\ scene.raw * scene.scale >= 200000
      /\ scene.raw * scene.scale <= 4000000
      /\ scene.row % 4 = 0 /\ scene.col % 4 = 0 )
        => \E p \in plots :
              p.y = scene.row /\ p.x = scene.col /\ p.raw = scene.raw

\* C19 witness: the sample 4000 at row 0, col 0 with value_scale 1.0 (depth_m
\* 4.0, the far end of the range) was admitted by the map.
C19_Witness ==
    /\ variant = "rawmap"
    /\ scene = [row |-> 0, col |-> 0, raw |-> 4000, scale |-> 1000]
    /\ \E p \in plots : p.y = 0 /\ p.x = 0 /\ p.raw = 4000

\* C20: every sample for which the viewer made the perspective divide has a
\* rotated and moved-back depth rz above 0.1 (100 mm), and a pixel is written
\* only inside the canvas of 1280 x 360.
C20_OnlyInFrontProjected ==
    variant = "vision" =>
        \A p \in plots :
            /\ p.depth > 100
            /\ p.written => (p.px >= 0 /\ p.px < 1280 /\ p.py >= 0 /\ p.py < 360)

\* C20 witness: the viewer as constructed was given a frame whose sample at
\* (0, 0) is 5000; its rz is not above 0.1 and nothing was projected.
C20_Witness ==
    /\ variant = "vision"
    /\ view = NewView
    /\ scene = [row |-> 0, col |-> 0, raw |-> 5000, scale |-> 1000]
    /\ Rotated(view, 0, 0, 5000).rz <= 100
    /\ plots = {}

(* ------------------------------------------------------------------ *)
(* Claims on the 3D map (SpecViz)                                      *)
(* ------------------------------------------------------------------ *)

\* the last n entries of q
LastOf(q, n) == SubSeq(q, Len(q) - n + 1, Len(q))

\* C21: an update in accumulating mode appends the points the frame admits,
\* with their colours, in order, and then removes exactly the oldest entries
\* above the cap: afterwards the buffer holds at most maxPoints entries, one
\* colour per point, and they are the most recently appended ones in
\* arrival order.
C21_OldestEvicted ==
    [][ (cloud'.op = "update" /\ cloud.accumulate) =>
          LET arrived == cloud.points \o PointsFrom(NewPoints(scene'), 0)
          IN  /\ Len(cloud'.points) <= MaxCloud
              /\ cloud'.points = LastOf(arrived, Min(Len(arrived), MaxCloud))
              /\ Len(cloud'.colors) = Len(cloud'.points)
              /\ \A i \in 1..Len(cloud'.points) :
                     cloud'.colors[i] = Color3D(cloud'.points[i]) ]_vars

\* a frame of four admitted points has been appended and only its last
\* MaxCloud points are kept
C21_Witness ==
    /\ cloud.op = "update" /\ cloud.accumulate
    /\ "bg" \in DOMAIN scene /\ scene.raw = 2000
    /\ Len(cloud.points) = MaxCloud
    /\ cloud.points[MaxCloud].y = SkipStep /\ cloud.points[MaxCloud].x = SkipStep
    /\ \A i \in 1..Len(cloud.points) : cloud.points[i].raw = 300

\* C22: with accumulation off, the cloud shown after an update consists of
\* the points of the latest depth grid only, also when that grid admits no
\* point.
C22_StatelessShowsLatest ==
    (cloud.op = "update" /\ ~cloud.accumulate) =>
        cloud.shown = PointsFrom(NewPoints(scene), 0)

(* ------------------------------------------------------------------ *)
(* Claims on the 2D map (SpecViz)                                      *)
(* ------------------------------------------------------------------ *)

\* C23: Map2D::update is a function of the grid, its value scale and the
\* fixed parameters: after update(g) the canvas is the one a newly
\* constructed Map2D shows after update(g), whatever was rendered into the
\* instance before.
C23_CanvasOfLatestGridOnly ==
    (variant \in {"rawmap", "tcpmap"} /\ scene # NoScene) =>
        plots = MapCanvas({}, variant, scene)

\* a grid was rendered into a canvas that held another grid's sample
C23_Witness ==
    /\ variant \in {"rawmap", "tcpmap"}
    /\ canvas0 # {} /\ plots # {} /\ canvas0 # plots

(* ------------------------------------------------------------------ *)
(* Claims on the processes (SpecProcess)                               *)
(* ------------------------------------------------------------------ *)

\* C25: every receive call of a receiver loop is bounded by a receive
\* timeout, so that with a silent peer the call returns, the loop reaches the
\* display refresh and the exit key check, and an exit request is honoured.
C25_ReceiveBounded == proc.pc = "recv" => proc.rcvtimeo

\* C26: a process exits with status 1 on a usage error and on a failed setup
\* call (socket, bind, listen, accept, connect), which is never ignored, and
\* with status 0 on a clean shutdown.
C26_ExitStatus ==
    /\ proc.failed # "none" => (proc.pc = "exited" /\ proc.status = 1)
    /\ (proc.pc = "exited" /\ proc.failed = "none") =>
           proc.status = IF proc.usage THEN 1 ELSE 0

(* ------------------------------------------------------------------ *)
(* Claims on the received pixel buffers (SpecViz)                      *)
(* ------------------------------------------------------------------ *)

\* C27: a received pixel buffer is used only after its size was checked
\* against width * height * bytes per sample: no depth view reads a sample
\* beyond the bytes the buffer holds.
C27_NoReadOutsideBuffer == outside = {}

----------------------------------------------------------------------------
(* SpecSession: a stream receiver from its listen call on, and the sender  *)
(* that connects to it.  The three stream receivers: switchable_receiver   *)
(* ("switch"), submarine_receiver_tcp ("tcp") and camera_receiver          *)
(* ("camrx").  sess.link is the sender's connection: "none" (it has none), *)
(* "queued" (its connect completed in the listen backlog) or "session"     *)
(* (the receiver accepted it).  Both processes run on: no exit key.        *)

SessionVariants == {"switch", "tcp", "camrx"}

\* the frame types a stream sender writes
SessionTypes == 0 .. 3

\* the receiver has bound and listens; it blocks in accept
InitSession ==
    /\ variant \in SessionVariants
    /\ txArgs = <<>>
    /\ ret = NoRet
    /\ frames = EmptyMap
    /\ lastFrame = 0
    /\ InitClk
    /\ InitStream
    /\ InitIdle
    /\ InitViz
    /\ proc = NoProc
    /\ sess = [NoSess EXCEPT !.rx = "accept", !.listening = TRUE]
    /\ ctl = NoCtl

SessionFrame == UNCHANGED <<dgVars, clkVars, dispVars, stVars, conVars, capVars, vizVars,
                            proc, ctl>>

\* the sender's connect(): completed by the kernel while the receiver's
\* socket listens (backlog 1), refused once that socket is closed
SenderConnect ==
    /\ sess.link = "none"
    /\ sess' = IF sess.listening THEN [sess EXCEPT !.link = "queued", !.op = "connect"]
               ELSE [sess EXCEPT !.op = "refused"]
    /\ SessionFrame

\* accept() returns: waitForConnection sets connected, submarine_receiver_tcp
\* closes server_sock right after the TCPReceiver constructor accepted
SessionAccept ==
    /\ sess.rx = "accept"
    /\ sess.link = "queued"
    /\ sess' = [sess EXCEPT !.rx = "loop", !.link = "session", !.accepted = TRUE,
                            !.connected = (variant = "switch"),
                            !.listening = (variant # "tcp"), !.op = "accept"]
    /\ SessionFrame

\* the session ends while both processes run on: the sender closed its
\* socket to reconnect, or the connection was reset
SessionLost ==
    /\ sess.link = "session"
    /\ sess' = [sess EXCEPT !.link = "none", !.op = "lost"]
    /\ SessionFrame

\* one round of the receiver's loop in which receiveFrame returns a frame
SessionRoundFrame ==
    /\ sess.rx = "loop"
    /\ sess.link = "session"
    /\ variant = "switch" => sess.connected
    /\ \E t \in SessionTypes :
         sess' = [sess EXCEPT !.cached = @ \cup {t}, !.op = "frame"]
    /\ SessionFrame

\* one round of the receiver's loop in which receiveFrame returns false
SessionRoundEmpty ==
    /\ sess.rx = "loop"
    /\ sess' =
         CASE variant = "switch" ->
                IF sess.connected /\ sess.link # "session"
                THEN [sess EXCEPT !.connected = FALSE, !.op = "eof"]
                ELSE [sess EXCEPT !.op = "false"]
           [] variant = "tcp" -> [sess EXCEPT !.op = "false"]
           [] OTHER ->
                IF sess.link # "session"
                THEN [sess EXCEPT !.rx = "exited", !.listening = FALSE, !.op = "break"]
                ELSE sess
    /\ variant = "camrx" => sess.link # "session"
    /\ SessionFrame

NextSession ==
    \/ SenderConnect
    \/ SessionAccept
    \/ SessionLost
    \/ SessionRoundFrame
    \/ SessionRoundEmpty

\* both processes are scheduled: the sender keeps calling connect, the
\* receiver's accept returns and its loop keeps turning
SpecSession ==
    /\ InitSession
    /\ [][NextSession]_vars
    /\ WF_vars(SenderConnect)
    /\ WF_vars(SessionAccept)
    /\ WF_vars(SessionRoundFrame)
    /\ WF_vars(SessionRoundEmpty)

----------------------------------------------------------------------------
(* SpecMode: a switchable receiver and its sender, the UDP pair ("udpsw":   *)
(* udp_switchable_receiver, udp_switchable_sender) and the TCP pair         *)
(* ("switch": switchable_receiver, switchable_sender).  ctl.cmds are the    *)
(* command bytes on their way to the sender, ctl.link the TCP session.      *)

CMD_COLOR == 1
CMD_DEPTH == 2

ModeVariants == {"udpsw", "switch"}

\* keys the operator presses, command bytes in flight, datagrams of other hosts
MaxKeys == 3
MaxInFlight == 2
MaxForeign == 1

\* command bytes a datagram of another host may carry to port + 1
ForeignCmds == {0, 3}

\* Viewer3DManager::start with the result of fork()
ViewerStart(c, forkOk) ==
    IF c.pid > 0 THEN c
    ELSE IF forkOk THEN [c EXCEPT !.pid = 1, !.children = @ + 1]
    ELSE [c EXCEPT !.pid = -1]

\* Viewer3DManager::stop
ViewerStop(c) ==
    IF c.pid > 0 THEN [c EXCEPT !.pid = 0, !.children = @ - 1] ELSE c

\* the frame types one send iteration writes, in order; the TCP sender
\* stops writing when a header send fails (sent frames of the iteration)
IterationAllTypes(mode, haveColor, haveDepth) ==
    (IF haveColor THEN <<0>> ELSE <<>>) \o (IF haveDepth THEN <<1, 2, 3>> ELSE <<>>)

IterationTypes(mode, haveColor, haveDepth) ==
    IF mode = CMD_COLOR
    THEN IF haveColor THEN <<0>> ELSE <<>>
    ELSE IF haveDepth THEN <<1, 2, 3>> ELSE <<>>

\* the receivers start in COLOR mode and send that command; the UDP
\* sender may not be bound yet (the datagram is lost), the TCP receiver
\* has accepted the sender before
InitMode ==
    /\ variant \in ModeVariants
    /\ txArgs = <<>>
    /\ ret = NoRet
    /\ frames = EmptyMap
    /\ lastFrame = 0
    /\ InitClk
    /\ InitStream
    /\ InitIdle
    /\ InitViz
    /\ proc = NoProc
    /\ sess = NoSess
    /\ \E sent \in IF variant = "udpsw" THEN {<<>>, <<CMD_COLOR>>} ELSE {<<CMD_COLOR>>} :
         ctl = [NoCtl EXCEPT !.rxPc = "loop", !.rxMode = CMD_COLOR, !.sndMode = CMD_COLOR,
                             !.cmds = sent, !.iterMode = CMD_COLOR,
                             !.link = IF variant = "switch" THEN "up" ELSE "none",
                             !.rxConnected = (variant = "switch")]

ModeFrame == UNCHANGED <<dgVars, clkVars, dispVars, stVars, conVars, capVars, vizVars,
                         proc, sess>>

\* the command byte leaves the receiver: sendto, or sendCommand, which
\* returns at once when connected is false and writes into a dead session
\* otherwise
SendCommand(c, cmd) ==
    IF variant = "udpsw" \/ (c.rxConnected /\ c.link = "up")
    THEN [c EXCEPT !.cmds = Append(@, cmd)]
    ELSE c

\* a round of the receiver's loop with key '1' or '2' pressed
KeyMode ==
    /\ ctl.rxPc = "loop"
    /\ ctl.keys < MaxKeys
    /\ Len(ctl.cmds) < MaxInFlight
    /\ \E cmd \in {CMD_COLOR, CMD_DEPTH}, forkOk \in BOOLEAN :
         LET pressed == [ctl EXCEPT !.keys = @ + 1, !.op = "key"]
             moded == [pressed EXCEPT !.rxMode = cmd]
         IN  ctl' =
               IF variant = "switch" THEN SendCommand(moded, cmd)
               ELSE IF ctl.rxMode = cmd THEN pressed
               ELSE IF cmd = CMD_COLOR THEN ViewerStop(SendCommand(moded, cmd))
               ELSE ViewerStart(SendCommand(moded, cmd), forkOk)
    /\ ModeFrame

\* a round of the receiver's loop with ESC pressed: break, viewer3D.stop()
KeyEsc ==
    /\ ctl.rxPc = "loop"
    /\ ctl' = [(IF variant = "udpsw" THEN ViewerStop(ctl) ELSE ctl)
                 EXCEPT !.rxPc = "exited", !.op = "esc"]
    /\ ModeFrame

\* a round of the TCP receiver's loop in which recv returns 0
ReceiverSeesEof ==
    /\ variant = "switch"
    /\ ctl.rxPc = "loop"
    /\ ctl.rxConnected
    /\ ctl.link = "down"
    /\ ctl' = [ctl EXCEPT !.rxConnected = FALSE, !.op = "eof"]
    /\ ModeFrame

\* a command datagram is lost on its way
CommandLost ==
    /\ variant = "udpsw"
    /\ ctl.cmds # <<>>
    /\ ctl' = [ctl EXCEPT !.cmds = Tail(@), !.lost = TRUE, !.op = "lost"]
    /\ ModeFrame

\* a datagram of another host arrives at the sender's command port
ForeignCommand ==
    /\ variant = "udpsw"
    /\ ctl.foreign < MaxForeign
    /\ Len(ctl.cmds) < MaxInFlight
    /\ \E b \in ForeignCmds :
         ctl' = [ctl EXCEPT !.cmds = Append(@, b), !.foreign = @ + 1, !.op = "foreign"]
    /\ ModeFrame

\* one round of the sender's loop: the poll of the command channel, then,
\* if 50 ms have passed, the send iteration under the mode just set.  The
\* TCP sender reconnects on n < 0 (nothing pending) and the receiver never
\* accepts again; a failed reconnect skips the iteration
SenderRound ==
    \E due \in BOOLEAN, haveColor \in BOOLEAN, haveDepth \in BOOLEAN,
       connectOk \in BOOLEAN, sent \in 0 .. 3 :
      LET n == IF ctl.cmds # <<>> THEN 1
               ELSE IF variant = "switch" /\ ctl.rxPc = "exited" /\ ctl.link = "up" THEN 0
               ELSE -1
          polled ==
            IF n > 0 THEN [ctl EXCEPT !.sndMode = Head(ctl.cmds), !.cmds = Tail(@)]
            ELSE IF n < 0 /\ variant = "switch" THEN [ctl EXCEPT !.link = "down"]
            ELSE ctl
          skip == variant = "switch" /\ n < 0 /\ ~(connectOk /\ ctl.rxPc = "loop")
          all == IterationTypes(polled.sndMode, haveColor, haveDepth)
          wrote == IF variant = "switch" THEN SubSeq(all, 1, Min(sent, Len(all))) ELSE all
      IN  /\ variant = "udpsw" => (connectOk /\ sent = 3)
          /\ ctl' = IF due /\ ~skip
                    THEN [polled EXCEPT !.iterMode = polled.sndMode, !.emitted = wrote,
                                        !.op = "iteration"]
                    ELSE [polled EXCEPT !.op = "poll"]
          /\ ModeFrame

NextMode ==
    \/ KeyMode
    \/ KeyEsc
    \/ ReceiverSeesEof
    \/ CommandLost
    \/ ForeignCommand
    \/ SenderRound

\* both loops keep turning; keys, losses and foreign datagrams may stop
SpecMode ==
    /\ InitMode
    /\ [][NextMode]_vars
    /\ WF_vars(SenderRound)
    /\ WF_vars(ReceiverSeesEof)

----------------------------------------------------------------------------
(* C31: after a stream session is lost while both processes keep running,  *)
(* the receiver accepts a new connection: whenever no session exists after *)
(* one was accepted, a session eventually exists again.                    *)
C31_SessionRecovers ==
    (sess.accepted /\ sess.link # "session") ~> (sess.link = "session")

----------------------------------------------------------------------------
(* C32: after the operator's last mode key the sender's mode eventually    *)
(* equals the mode the receiver displays, and stays equal, also when a     *)
(* command datagram is lost or the session is replaced (no datagram of     *)
(* another host is involved and the receiver is not ended).               *)
C32_ModesAgree ==
    [](ctl.foreign = 0 /\ ctl.rxPc = "loop") => <>[](ctl.sndMode = ctl.rxMode)

----------------------------------------------------------------------------
(* C33: the sender's current mode is always CMD_COLOR or CMD_DEPTH: a      *)
(* received command byte outside this set does not change the mode.        *)
C33_ModeIsDefined == ctl.sndMode \in {CMD_COLOR, CMD_DEPTH}

----------------------------------------------------------------------------
(* C34: a send iteration under COLOR mode writes only frames of type 0,    *)
(* one under DEPTH mode only frames of types 1, 2 and 3, and no iteration  *)
(* writes frames of both modes.                                            *)
C34_IterationOfOneMode ==
    LET types == {ctl.emitted[i] : i \in 1 .. Len(ctl.emitted)}
    IN  /\ ctl.iterMode = CMD_COLOR => types \subseteq {0}
        /\ ctl.iterMode = CMD_DEPTH => types \subseteq {1, 2, 3}
        /\ ~(0 \in types /\ types \cap {1, 2, 3} # {})

\* an iteration after a switch to DEPTH wrote all three depth-mode frames
C34_Witness ==
    /\ ctl.op = "iteration"
    /\ ctl.iterMode = CMD_DEPTH
    /\ ctl.emitted = <<1, 2, 3>>

----------------------------------------------------------------------------
(* C35: at the end of a send iteration of submarine_sender_tcp in which    *)
(* both a depth visualization and a 2D map were made, the map was made     *)
(* from the depth frame of the iteration's snapshot, the frame the depth   *)
(* visualization was made from.                                            *)
C35_OneDepthFramePerIteration ==
    (variant = "tcpsend" /\ mainPc = "loop" /\ snap.DEPTH > 0 /\ mainDepth > 0)
        => mainDepth = snap.DEPTH

----------------------------------------------------------------------------
(* C36: in camera_sender, after a failed send no sendFrame call writes to  *)
(* the socket until connect has succeeded again; the reconnect loop is     *)
(* entered from the send loop only with an error count above 10, and the   *)
(* count is 0 after every successful connect.                              *)
C36_NoWriteUntilReconnected ==
    [][variant = "camera" =>
         /\ (/\ snd.op \in {"send_failed", "not_connected", "connect_failed"}
             /\ snd'.frame_id = snd.frame_id + 1)
               => snd'.op \notin {"sent", "send_failed"}
         /\ (snd.pc = "stream" /\ snd'.pc = "connect") => snd'.error_count > 10
         /\ snd'.op = "connected" => snd'.error_count = 0]_vars

\* a send failed, ten more sendFrame calls returned without writing, and the
\* reconnect loop made a connect attempt
C36_Witness ==
    /\ variant = "camera"
    /\ snd.pc = "connect"
    /\ snd.op = "connect_failed"
    /\ snd.error_count = 11
    /\ ~snd.connected

----------------------------------------------------------------------------
(* C37: in SwitchableSender connected implies that sockfd is an open       *)
(* socket, and no recv, send or close is issued on a closed descriptor.    *)
C37_ConnectedMeansOpen ==
    variant = "swsend" => ((connected => snd.sockfd = "open") /\ snd.stale = {})

----------------------------------------------------------------------------
(* C38: while the UDP receiver's loop runs, a viewer child is recorded      *)
(* exactly when the current mode is CMD_DEPTH.                              *)
C38_ViewerIffDepth ==
    (variant = "udpsw" /\ ctl.rxPc = "loop") => ((ctl.pid > 0) <=> (ctl.rxMode = CMD_DEPTH))

============================================================================
